---- MODULE Spec2Model ----
(***************************************************************************)
(* State-machine model of the product service of jimmitjoo/ecom:           *)
(*   - models.Product with CalculateHash and Clone                         *)
(*   - the in-memory event store (StoreEvent / GetEvents)                  *)
(*   - the in-memory product repository (map id -> *Product)               *)
(*   - the TTL lock manager (AcquireLock / ReleaseLock / RefreshLock and   *)
(*     the cleanup goroutine)                                              *)
(*   - productService: CreateProduct, UpdateProduct, DeleteProduct,        *)
(*     ReplayEvents.                                                       *)
(*                                                                         *)
(* Go values that are reached through pointers, slices or maps live in an  *)
(* explicit heap `mem`, so that two holders of the same backing storage    *)
(* see each other's writes exactly as they do in the program.              *)
(***************************************************************************)
EXTENDS Integers, Sequences, FiniteSets, Bags, TLC

(***************************************************************************)
(* Bounds of the model.                                                    *)
(***************************************************************************)
MaxCalls    == 3   \* service calls started in one behaviour
MaxProducts == 1   \* CreateProduct calls (product ids issued)
MaxTime     == 3   \* the clock runs 0..MaxTime
MaxVersion  == 2   \* highest version a caller writes into a candidate
MaxClones   == 2   \* Clone calls a caller makes on the values it holds
MaxStoreCalls == 2 \* StoreEvent and GetEvents calls made on the bare store
MaxBatches == 2    \* batch calls made
BatchSize == 2     \* items of one batch call
MaxBatchProducts == 2 \* products created through batch calls

(***************************************************************************)
(* Program constants.  Time is counted in ticks; the update TTL of         *)
(* 10*time.Second is UpdateTTL ticks.                                      *)
(***************************************************************************)
UpdateTTL == 2

Procs  == {1, 2}              \* goroutines calling the service
Titles == {"t1", "t2"}        \* BaseTitle values
NoHash == <<>>                \* the empty string as LastHash / PrevHash

EventProductCreated == "product.created"
EventProductUpdated == "product.updated"
EventProductDeleted == "product.deleted"

VARIABLES
    mem,        \* heap: [structs, arrs, varrs, maps, chgs]
    products,   \* ProductRepository.products: id -> address of a Product
    events,     \* MemoryEventStore.events: sequence of stored events
    locks,      \* MemoryLockManager.locks: key -> [owner, expiresAt]
    sequence,   \* productService.sequence (atomic.Int64)
    uuids,      \* number of product ids drawn from uuid.New()
    now,        \* time.Now()
    proc,       \* per goroutine: program counter and locals of the call
    last,       \* per goroutine: outcome of its last completed call
    calls,      \* number of service calls started
    published,  \* events handed to the publisher
    held,       \* what the callers hold: Product addresses own (built and passed
                \* in) and got (returned), []Change references chg; uv are the
                \* UpdateVersion calls under way on shared values
    mu,         \* MemoryLockManager.mu: the goroutine inside it, 0 when free
    batch,      \* the batch call under way: its items and its results slice
    pub,        \* MemoryEventPublisher: handlers, goroutines started, deliveries
    lim         \* the rate limiters' maps and the answers they gave

vars == <<mem, products, events, locks, sequence, uuids, now, proc, last,
          calls, published, held, mu, batch, pub, lim>>

\* What the service calls never write: the mutex of the lock manager is free
\* whenever one of its operations is taken as a single step.
others == <<mu, batch, pub, lim>>

(***************************************************************************)
(* The heap.  mem.structs[a] is the Product struct at address a;           *)
(* mem.arrs[r] is the backing array of a []Price, []MarketMetadata or      *)
(* []Stock slice (elements are the structs, by value; a Currency is the    *)
(* sequence of its characters, an empty string id is 0);                   *)
(* mem.varrs[r] is the backing array of a []Variant slice, whose elements  *)
(* hold the references Attributes (a map) and Stock (a slice);             *)
(* mem.maps[r] is a map[string]string, modelled by the value of one key;   *)
(* mem.chgs[r] is the backing array of a []Change slice.                   *)
(* Reference 0 is nil.  CreatedAt/UpdatedAt are left out: no operation     *)
(* modelled here reads them.                                               *)
(***************************************************************************)
EmptyMem == [structs |-> <<>>, arrs |-> <<>>, varrs |-> <<>>, maps |-> <<>>,
             chgs |-> <<>>]

\* json.Marshal of a slice of plain values: null for nil, else the elements.
JsonArr(M, r) == IF r = 0 THEN <<0>> ELSE <<1>> \o M.arrs[r]

\* json.Marshal of a map[string]string.
JsonMap(M, r) == IF r = 0 THEN <<0>> ELSE <<1, M.maps[r]>>

\* json.Marshal of one Variant.
JsonVariant(M, v) ==
    <<<<v.ID>>, <<v.SKU>>, JsonMap(M, v.Attributes), JsonArr(M, v.Stock)>>

\* json.Marshal of a []Variant.
JsonVariants(M, r) ==
    IF r = 0 THEN << <<0>> >>
    ELSE << <<1>> >> \o [i \in 1..Len(M.varrs[r]) |-> JsonVariant(M, M.varrs[r][i])]

\* math.Inf(1) as a Price.Amount: a float64 above every number.
PosInf == 1000000

\* Line 84: json.Marshal(hashStruct) returns nil and an error when a float64
\* among the values is not finite; the only float64 is Price.Amount.
MarshalFails(M, s) ==
    /\ s.Prices # 0
    /\ \E i \in 1..Len(M.arrs[s.Prices]) : M.arrs[s.Prices][i].Amount = PosInf

\* Lines 84-86 when json.Marshal has failed: the error is dropped and the
\* digest is sha256 of no bytes, e3b0c442...b855.
EmptyDigest == <<"e3b0c442">>

\* Product.CalculateHash: sha256 over the JSON of the eight semantic fields,
\* modelled as the (collision-free) serialisation itself, and the digest of
\* no bytes when the serialisation fails.
CalculateHashOf(M, s) ==
    IF MarshalFails(M, s) THEN EmptyDigest
    ELSE <<s.ID, s.SKU, s.BaseTitle, s.Description, JsonArr(M, s.Prices),
           JsonVariants(M, s.Variants), JsonArr(M, s.Metadata), s.Version>>

CalculateHash(M, a) == CalculateHashOf(M, M.structs[a])

\* Product.Clone: a shallow copy of the struct, fresh backing arrays for
\* Prices and Metadata (non-nil even when the source is nil), a fresh
\* backing array for Variants when it is non-nil, whose elements are copied
\* by value and so keep the same Attributes map and Stock slice.
Clone(M, a) ==
    LET s  == M.structs[a]
        pa == Len(M.arrs) + 1
        ma == Len(M.arrs) + 2
        va == IF s.Variants = 0 THEN 0 ELSE Len(M.varrs) + 1
        ns == [s EXCEPT !.Prices = pa, !.Metadata = ma, !.Variants = va]
    IN  [addr |-> Len(M.structs) + 1,
         mem  |-> [M EXCEPT
                     !.structs = Append(@, ns),
                     !.arrs    = @ \o << IF s.Prices = 0 THEN <<>> ELSE M.arrs[s.Prices],
                                        IF s.Metadata = 0 THEN <<>> ELSE M.arrs[s.Metadata] >>,
                     !.varrs   = IF s.Variants = 0 THEN @
                                 ELSE Append(@, M.varrs[s.Variants])]]

(***************************************************************************)
(* models.Event with a *models.ProductEvent as Data.  The Event and the    *)
(* ProductEvent structs are values; Data.Product is the address of a       *)
(* Product and Data.Changes the reference of a []Change (0 for nil).       *)
(* Event.ID, a fresh uuid that nothing reads, is left out.                 *)
(***************************************************************************)
NoEvent ==
    [Type |-> "", EntityID |-> 0, Version |-> 0, Sequence |-> 0,
     Data |-> [ProductID |-> 0, Action |-> "", Product |-> 0, Version |-> 0,
               PrevHash |-> NoHash, Changes |-> 0]]

\* MemoryEventStore.StoreEvent: appends a copy of the event whose
\* ProductEvent is copied by value and whose Product is Clone()d.
StoreEvent(M, E, ev) ==
    LET c == Clone(M, ev.Data.Product)
    IN  [mem    |-> c.mem,
         events |-> Append(E, [ev EXCEPT !.Data.Product = c.addr])]

\* MemoryEventStore.GetEvents: the events of the entity with
\* Version >= fromVersion, in store order, each copied as in StoreEvent.
RECURSIVE GetEventsFrom(_, _, _, _, _)
GetEventsFrom(M, E, entityID, fromVersion, i) ==
    IF i > Len(E) THEN [mem |-> M, events |-> <<>>]
    ELSE IF E[i].EntityID = entityID /\ E[i].Version >= fromVersion
         THEN LET c    == Clone(M, E[i].Data.Product)
                  rest == GetEventsFrom(c.mem, E, entityID, fromVersion, i + 1)
              IN  [mem    |-> rest.mem,
                   events |-> <<[E[i] EXCEPT !.Data.Product = c.addr]>> \o rest.events]
         ELSE GetEventsFrom(M, E, entityID, fromVersion, i + 1)

GetEvents(M, E, entityID, fromVersion) ==
    GetEventsFrom(M, E, entityID, fromVersion, 1)

(***************************************************************************)
(* The in-memory product repository: a map from id to *Product.            *)
(***************************************************************************)
ErrProductNotFound == "product not found"

\* A lookup that answers with some product for an id it does not have.
RepoGetByIDFirst(P, id) ==
    IF id \in DOMAIN P THEN [err |-> "", addr |-> P[id]]
                       ELSE [err |-> "", addr |-> 1]

\* ProductRepository.GetByID: the stored pointer itself.
RepoGetByID(P, id) ==
    IF id \in DOMAIN P THEN [err |-> "", addr |-> P[id]]
                       ELSE [err |-> ErrProductNotFound, addr |-> 0]

\* ProductRepository.Create: r.products[product.ID] = product.
RepoCreate(M, P, a) ==
    LET id == M.structs[a].ID
    IN  [x \in DOMAIN P \cup {id} |-> IF x = id THEN a ELSE P[x]]

\* ProductRepository.Update: replaces the pointer of an existing id.
RepoUpdate(M, P, a) ==
    LET id == M.structs[a].ID
    IN  IF id \in DOMAIN P
        THEN [err |-> "", products |-> [P EXCEPT ![id] = a]]
        ELSE [err |-> ErrProductNotFound, products |-> P]

\* ProductRepository.Delete.
RepoDelete(P, id) ==
    IF id \in DOMAIN P
    THEN [err |-> "", products |-> [x \in DOMAIN P \ {id} |-> P[x]]]
    ELSE [err |-> ErrProductNotFound, products |-> P]

(***************************************************************************)
(* MemoryLockManager (package locks).  Each operation runs under m.mu; the *)
(* operators below are the bodies, the service takes each as one step and  *)
(* the lock-manager specification further down takes AcquireLock apart.    *)
(***************************************************************************)
ErrCanceled == "context canceled"

\* A context whose cancellation is not looked at.
ctxErrIgnored(cancelled) == ""

\* Line 37: ctx.Err(), "" for a context that is not done.
ctxErr(cancelled) == IF cancelled THEN ErrCanceled ELSE ""

\* A check that lets every caller through.
UnexpiredNever(L, k, t) == FALSE

\* A check that takes every entry of the table for a standing lock.
UnexpiredWhilePresent(L, k, t) == k \in DOMAIN L

\* Lines 45-46: m.locks[resourceID] exists and now.Before(lock.expiresAt).
Unexpired(L, k, t) == k \in DOMAIN L /\ t < L[k].expiresAt

\* Lines 49-55: the old entry is deleted and the new lock installed.
InstallLock(L, k, ttl, t) ==
    [x \in DOMAIN L \cup {k} |->
        IF x = k THEN [owner |-> "owner", expiresAt |-> t + ttl] ELSE L[x]]

\* AcquireLock: fails on a cancelled context; refuses while an unexpired
\* lock exists; otherwise replaces whatever is there.
AcquireLock(L, k, ttl, t, cancelled) ==
    IF ctxErr(cancelled) # ""
    THEN [ok |-> FALSE, err |-> ctxErr(cancelled), locks |-> L]
    ELSE IF Unexpired(L, k, t)
         THEN [ok |-> FALSE, err |-> "", locks |-> L]
         ELSE [ok |-> TRUE, err |-> "", locks |-> InstallLock(L, k, ttl, t)]

\* A release that leaves the table alone.
ReleaseLockKept(L, k) == L

\* ReleaseLock: delete(m.locks, resourceID), whoever calls.
ReleaseLock(L, k) == [x \in DOMAIN L \ {k} |-> L[x]]

\* RefreshLock: new expiry for an existing lock, nothing otherwise.
RefreshLock(L, k, ttl, t) ==
    IF k \in DOMAIN L THEN [L EXCEPT ![k].expiresAt = t + ttl] ELSE L

\* A sweep that removes nothing.
cleanupNothing(L, t) == L

\* One tick of cleanupExpiredLocks: removes the locks with now.After(expiresAt).
cleanupExpiredLocks(L, t) ==
    [x \in {k \in DOMAIN L : ~(t > L[k].expiresAt)} |-> L[x]]

(***************************************************************************)
(* productService.                                                         *)
(***************************************************************************)
\* Error values of the service calls ("" is a nil error).
ErrEmptyID        == "product ID cannot be empty"
ErrAcquire        == "failed to acquire lock"
ErrNotAcquired    == "could not acquire lock for update"
ErrGetCurrent     == "failed to get current product"
ErrVersionConflict == "version conflict"
ErrUpdate         == "failed to update product"
ErrPublish        == "publish failed"

\* What the publisher (an interface; out of scope) may answer.
PublishOutcomes == {"", ErrPublish}

\* results[i] before worker i has written it (a nil *BatchResult).
NoResult == [set |-> FALSE, ID |-> 0, Success |-> FALSE, Error |-> ""]

MaxPublished  == 2     \* Publish calls
MaxSubscribes == 3     \* Subscribe calls
Handlers == {1, 2, 3}  \* handler closures a subscriber holds
PubTypes == {EventProductCreated, EventProductUpdated}

\* NewMemoryEventPublisher(): no handlers; nothing published yet.
NoPublisher ==
    [handlers |-> [ty \in {} |-> <<>>],
     sent     |-> <<>>,
     running  |-> [e \in 1..MaxPublished, h \in Handlers |-> 0],
     received |-> [e \in 1..MaxPublished, h \in Handlers |-> 0],
     subs     |-> 0]

\* NewTokenBucketLimiter / NewSlidingWindowLimiter: empty maps; no answers
\* given yet.
NoLimiter ==
    [windows |-> <<>>, tokens |-> <<>>, lastRefill |-> <<>>, answers |-> <<>>]

\* No batch call has been made.
NoBatch == [op |-> "none", n |-> 0, items |-> <<>>, results |-> <<>>,
            returned |-> FALSE, err |-> "", count |-> 0]

IdleProc ==
    [pc |-> "idle", product |-> 0, current |-> 0, updated |-> 0,
     event |-> NoEvent, snap |-> 0, read |-> <<>>, hash |-> NoHash, key |-> 0, acquired |-> FALSE, released |-> 0,
     ver |-> 0, start |-> 0, err |-> "", ttl |-> 0, t |-> 0,
     free |-> FALSE, lost |-> FALSE]

NoCall ==
    [op |-> "none", id |-> 0, ver |-> 0, start |-> 0, err |-> "",
     acquired |-> FALSE, released |-> 0, ttl |-> 0, at |-> 0, lost |-> FALSE]

\* The committed version of an id (0 when the id is not in the live table).
CommittedVersion(id) ==
    IF id \in DOMAIN products THEN mem.structs[products[id]].Version ELSE 0

\* A call returns: its outcome is remembered and the goroutine is idle again.
Return(p, op, id, err) ==
    /\ last' = [last EXCEPT ![p] =
                  [NoCall EXCEPT !.op = op, !.id = id, !.ver = proc[p].ver,
                                 !.start = proc[p].start, !.err = err,
                                 !.acquired = proc[p].acquired,
                                 !.released = proc[p].released]]
    /\ proc' = [proc EXCEPT ![p] = IdleProc]

\* productService.getNextSequence: s.sequence.Add(1).
getNextSequence(n) == n + 1

\* A publisher that is handed an empty event.
PublishedNothing(ev) ==
    [Type |-> "", EntityID |-> 0, Version |-> 0, Sequence |-> 0, ProductID |-> 0]

\* The record handed to the publisher.
Published(ev) ==
    [Type |-> ev.Type, EntityID |-> ev.EntityID, Version |-> ev.Version,
     Sequence |-> ev.Sequence, ProductID |-> ev.Data.ProductID]

\* The values of the products the callers build.
SEK == <<"S", "E", "K">>
APrice    == [Currency |-> SEK, Amount |-> 100]
AMetadata == [Market |-> "SE", Title |-> "m1"]
AStock    == [LocationID |-> "loc", Quantity |-> 5]

\* A Product value as a caller builds it: no id, no version, no hash.
\* kind 1 has no variants (createValidProduct), kind 2 has one variant
\* with an Attributes map and a Stock slice.
NewDraft(M, kind, title) ==
    LET pa == IF kind = 0 THEN 0 ELSE Len(M.arrs) + 1
        ma == IF kind = 0 THEN 0 ELSE Len(M.arrs) + 2
        sa == Len(M.arrs) + 3
        s  == [ID |-> 0, SKU |-> "sku", BaseTitle |-> title, Description |-> "",
               Prices |-> pa, Variants |-> IF kind = 2 THEN Len(M.varrs) + 1 ELSE 0,
               Metadata |-> ma, Version |-> 0, LastHash |-> NoHash]
    IN  [addr |-> Len(M.structs) + 1,
         mem  |-> [M EXCEPT
                     !.structs = Append(@, s),
                     !.arrs    = IF kind = 2
                                 THEN @ \o << <<APrice>>, <<AMetadata>>, <<AStock>> >>
                                 ELSE IF kind = 1 THEN @ \o << <<APrice>>, <<AMetadata>> >>
                                 ELSE @,
                     !.varrs   = IF kind = 2
                                 THEN Append(@, << [ID |-> 1, SKU |-> "vsku",
                                                    Attributes |-> Len(M.maps) + 1,
                                                    Stock |-> sa] >>)
                                 ELSE @,
                     !.maps    = IF kind = 2 THEN Append(@, 1) ELSE @]]

(***************************************************************************)
(* CreateProduct(product): the caller's product gets its id, version 1     *)
(* and hash; the event is stored; the caller's pointer itself is put into  *)
(* the live table; the event is published.                                 *)
(***************************************************************************)
\* Lines 45-68 on the product at address a, with ver the version of line 50.
CreateBeginWith(M, a, id, sq, ver) ==
    LET s1 == [M.structs[a] EXCEPT !.ID = id, !.Version = ver]
        s2 == [s1 EXCEPT !.LastHash = CalculateHashOf(M, s1)]
    IN  [mem   |-> [M EXCEPT !.structs[a] = s2],
         event |-> [Type |-> EventProductCreated, EntityID |-> id,
                    Version |-> s2.Version, Sequence |-> sq,
                    Data |-> [ProductID |-> id, Action |-> "created",
                              Product |-> a, Version |-> s2.Version,
                              PrevHash |-> NoHash, Changes |-> 0]]]

\* A creation that leaves the version the draft came with.
CreateBeginUnversioned(M, a, id, sq) ==
    CreateBeginWith(M, a, id, sq, M.structs[a].Version)

\* Line 50: product.Version = 1.
CreateBegin(M, a, id, sq) == CreateBeginWith(M, a, id, sq, 1)

\* CreateProduct called with the product at address a of memory M, in a
\* behaviour of at most maxCalls calls and maxProducts products.
CreateEnterUpTo(p, M, a, maxCalls, maxProducts) ==
    /\ proc[p].pc = "idle"
    /\ calls < maxCalls
    /\ uuids < maxProducts
    /\ LET b == CreateBegin(M, a, uuids + 1, getNextSequence(sequence))
       IN  /\ mem' = b.mem
           /\ proc' = [proc EXCEPT ![p] =
                         [IdleProc EXCEPT !.pc = "cre_store", !.product = a,
                                          !.event = b.event, !.key = uuids + 1]]
    /\ uuids' = uuids + 1
    /\ sequence' = getNextSequence(sequence)
    /\ calls' = calls + 1
    /\ UNCHANGED <<products, events, locks, now, last, published>>
    /\ UNCHANGED others

CreateEnter(p, M, a) == CreateEnterUpTo(p, M, a, MaxCalls, MaxProducts)

\* A caller builds a draft and calls CreateProduct with it.
CreateCall(p, kind, title) ==
    LET d == NewDraft(mem, kind, title)
    IN  /\ CreateEnter(p, d.mem, d.addr)
        /\ held' = [held EXCEPT !.own = @ \cup {d.addr}]

\* Lines 70-73: s.repo.StoreEvent(event).
CreateStore(p) ==
    /\ proc[p].pc = "cre_store"
    /\ LET r == StoreEvent(mem, events, proc[p].event)
       IN  /\ mem' = r.mem
           /\ events' = r.events
    /\ proc' = [proc EXCEPT ![p].pc = "cre_commit"]
    /\ UNCHANGED <<products, locks, sequence, uuids, now, last, calls, published, held>>
    /\ UNCHANGED others

\* Lines 75-78: s.repo.Create(product), under r.mu.
CreateCommit(p) ==
    /\ proc[p].pc = "cre_commit"
    /\ products' = RepoCreate(mem, products, proc[p].product)
    /\ proc' = [proc EXCEPT ![p].pc = "cre_publish"]
    /\ UNCHANGED <<mem, events, locks, sequence, uuids, now, last, calls,
                   published, held>>
    /\ UNCHANGED others

\* Lines 80-81: return s.publisher.Publish(event).
CreatePublish(p, outcome) ==
    /\ proc[p].pc = "cre_publish"
    /\ published' = published \cup {Published(proc[p].event)}
    /\ Return(p, "create", proc[p].key, outcome)
    /\ UNCHANGED <<mem, products, events, locks, sequence, uuids, now, calls, held>>
    /\ UNCHANGED others

(***************************************************************************)
(* UpdateProduct(product).                                                 *)
(***************************************************************************)
\* productService.calculateChanges: only base_title is compared.
calculateChanges(old, new) ==
    IF old.BaseTitle # new.BaseTitle
    THEN << [Field |-> "base_title", OldValue |-> old.BaseTitle,
             NewValue |-> new.BaseTitle] >>
    ELSE <<>>

\* Line 127: updatedProduct.Version++.
NextVersion(v) == v + 1

\* Lines 126-129: updatedProduct := product.Clone(), its version and hash
\* bumped.
UpdateClone(M, product) ==
    LET c1 == Clone(M, product)
        u1 == [c1.mem.structs[c1.addr] EXCEPT !.Version = NextVersion(@)]
        u2 == [u1 EXCEPT !.LastHash = CalculateHashOf(c1.mem, u1)]
    IN  [mem |-> [c1.mem EXCEPT !.structs[c1.addr] = u2], updated |-> c1.addr]

\* Lines 132-147: the update event, whose Product is a second Clone of
\* updatedProduct.
UpdateEvent(M, updated, current, sq, prevHash) ==
    LET u2 == M.structs[updated]
        c2 == Clone(M, updated)
        m2 == [c2.mem EXCEPT !.chgs = Append(@, calculateChanges(M.structs[current], u2))]
    IN  [mem     |-> m2,
         updated |-> updated,
         event   |-> [Type |-> EventProductUpdated, EntityID |-> u2.ID,
                      Version |-> u2.Version, Sequence |-> sq,
                      Data |-> [ProductID |-> u2.ID, Action |-> "updated",
                                Product |-> c2.addr, Version |-> u2.Version,
                                PrevHash |-> prevHash,
                                Changes |-> Len(m2.chgs)]]]

\* Lines 126-147.
UpdateBuildWith(M, product, current, sq, prevHash) ==
    LET c == UpdateClone(M, product)
    IN  UpdateEvent(c.mem, c.updated, current, sq, prevHash)

\* Line 144: PrevHash is currentProduct.LastHash.
UpdateBuild(M, product, current, sq) ==
    UpdateBuildWith(M, product, current, sq, M.structs[current].LastHash)

\* A refused call that runs the deferred ReleaseLock all the same.
ReleaseOnRefusal(L, k) == ReleaseLock(L, k)

\* Lines 103-108: the returns before the defer of line 109 is registered
\* leave the lock table alone.
RefusedLocks(L, k) == L

\* Lines 91-109 with the candidate at address a of memory M: the id check,
\* then AcquireLock(ctx, product.ID, 10s) with a background context.
UpdateEnterUpTo(p, M, a, maxCalls) ==
    /\ proc[p].pc = "idle"
    /\ calls < maxCalls
    /\ calls' = calls + 1
    /\ mem' = M
    /\ LET id == M.structs[a].ID
           r  == AcquireLock(locks, id, UpdateTTL, now, FALSE)
           me == [IdleProc EXCEPT !.product = a, !.key = id,
                                  !.ver = M.structs[a].Version,
                                  !.start = CommittedVersion(id)]
           failed(e) == [NoCall EXCEPT !.op = "update", !.id = id, !.ver = me.ver,
                                       !.start = me.start, !.err = e]
       IN  IF id = 0
           THEN /\ last' = [last EXCEPT ![p] = failed(ErrEmptyID)]
                /\ UNCHANGED <<proc, locks>>
           ELSE IF ~r.ok
           THEN /\ last' = [last EXCEPT ![p] =
                              failed(IF r.err # "" THEN ErrAcquire ELSE ErrNotAcquired)]
                /\ locks' = RefusedLocks(locks, id)
                /\ UNCHANGED proc
           ELSE /\ locks' = r.locks
                /\ proc' = [proc EXCEPT ![p] =
                              [me EXCEPT !.pc = "upd_get", !.acquired = TRUE]]
                /\ UNCHANGED last
    /\ UNCHANGED <<products, events, sequence, uuids, now, published>>
    /\ UNCHANGED others

UpdateEnter(p, M, a) == UpdateEnterUpTo(p, M, a, MaxCalls)

\* A Product value a caller builds for an update: id, version and title
\* are the caller's choice.
NewCandidate(M, id, ver, title) ==
    LET d == NewDraft(M, 1, title)
    IN  [addr |-> d.addr,
         mem  |-> [d.mem EXCEPT !.structs[d.addr].ID = id,
                                !.structs[d.addr].Version = ver]]

\* A caller builds a candidate and calls UpdateProduct with it.
UpdateCall(p, id, ver, title) ==
    LET d == NewCandidate(mem, id, ver, title)
    IN  /\ UpdateEnter(p, d.mem, d.addr)
        /\ held' = [held EXCEPT !.own = @ \cup {d.addr}]

\* A version check that lets every candidate through.
VersionConflictNever(M, product, current) == FALSE

\* Line 121: product.Version != current.Version.
VersionConflict(M, product, current) ==
    M.structs[product].Version # M.structs[current].Version

\* Lines 111-123: GetByID and the version check.
UpdateGet(p) ==
    /\ proc[p].pc = "upd_get"
    /\ LET g == RepoGetByID(products, proc[p].key)
       IN  proc' = [proc EXCEPT ![p] =
             IF g.err # ""
             THEN [@ EXCEPT !.pc = "upd_exit", !.err = ErrGetCurrent]
             ELSE IF VersionConflict(mem, proc[p].product, g.addr)
             THEN [@ EXCEPT !.pc = "upd_exit", !.current = g.addr,
                            !.err = ErrVersionConflict]
             ELSE [@ EXCEPT !.pc = "upd_build", !.current = g.addr]]
    /\ UNCHANGED <<mem, products, events, locks, sequence, uuids, now, last,
                   calls, published, held>>
    /\ UNCHANGED others

\* Lines 125-147: the clone, the new version and hash, the event.
UpdateMake(p) ==
    /\ proc[p].pc = "upd_build"
    /\ LET b == UpdateBuild(mem, proc[p].product, proc[p].current,
                            getNextSequence(sequence))
       IN  /\ mem' = b.mem
           /\ proc' = [proc EXCEPT ![p].pc = "upd_store",
                                   ![p].updated = b.updated,
                                   ![p].event = b.event]
    /\ sequence' = getNextSequence(sequence)
    /\ UNCHANGED <<products, events, locks, uuids, now, last, calls, published, held>>
    /\ UNCHANGED others

\* Lines 149-152: s.repo.StoreEvent(event) (the in-memory store never fails).
UpdateStore(p) ==
    /\ proc[p].pc = "upd_store"
    /\ LET r == StoreEvent(mem, events, proc[p].event)
       IN  /\ mem' = r.mem
           /\ events' = r.events
    /\ proc' = [proc EXCEPT ![p].pc = "upd_commit"]
    /\ UNCHANGED <<products, locks, sequence, uuids, now, last, calls, published, held>>
    /\ UNCHANGED others

\* Lines 154-157: s.repo.Update(updatedProduct), under r.mu.
UpdateCommit(p) ==
    /\ proc[p].pc = "upd_commit"
    /\ LET r == RepoUpdate(mem, products, proc[p].updated)
       IN  IF r.err # ""
           THEN /\ proc' = [proc EXCEPT ![p].pc = "upd_exit", ![p].err = ErrUpdate]
                /\ UNCHANGED products
           ELSE /\ products' = r.products
                /\ proc' = [proc EXCEPT ![p].pc = "upd_copy"]
    /\ UNCHANGED <<mem, events, locks, sequence, uuids, now, last, calls,
                   published, held>>
    /\ UNCHANGED others

\* Line 160: *product = *updatedProduct, under no lock.
UpdateCopyBack(p) ==
    /\ proc[p].pc = "upd_copy"
    /\ mem' = [mem EXCEPT !.structs[proc[p].product] = mem.structs[proc[p].updated]]
    /\ proc' = [proc EXCEPT ![p].pc = "upd_publish"]
    /\ UNCHANGED <<products, events, locks, sequence, uuids, now, last, calls,
                   published, held>>
    /\ UNCHANGED others

\* Line 162: return s.publisher.Publish(event).
UpdatePublish(p, outcome) ==
    /\ proc[p].pc = "upd_publish"
    /\ published' = published \cup {Published(proc[p].event)}
    /\ proc' = [proc EXCEPT ![p].pc = "upd_exit", ![p].err = outcome]
    /\ UNCHANGED <<mem, products, events, locks, sequence, uuids, now, last,
                   calls, held>>
    /\ UNCHANGED others

\* The return of UpdateProduct, with the number of ReleaseLock calls made.
UpdateReturn(p, n) ==
    /\ last' = [last EXCEPT ![p] =
                  [NoCall EXCEPT !.op = "update", !.id = proc[p].key,
                                 !.ver = proc[p].ver, !.start = proc[p].start,
                                 !.err = proc[p].err,
                                 !.acquired = proc[p].acquired,
                                 !.released = proc[p].released + n]]
    /\ proc' = [proc EXCEPT ![p] = IdleProc]
    /\ UNCHANGED <<mem, products, events, sequence, uuids, now, calls, published, held>>
    /\ UNCHANGED others

\* An exit that releases the lock on the success path only.
UpdateExitOnSuccess(p) ==
    /\ proc[p].pc = "upd_exit"
    /\ IF proc[p].err = ""
       THEN locks' = ReleaseLock(locks, proc[p].key) /\ UpdateReturn(p, 1)
       ELSE locks' = locks /\ UpdateReturn(p, 0)

\* The deferred s.locks.ReleaseLock(product.ID) of line 109, then the return.
UpdateExit(p) ==
    /\ proc[p].pc = "upd_exit"
    /\ locks' = ReleaseLock(locks, proc[p].key)
    /\ UpdateReturn(p, 1)

(***************************************************************************)
(* DeleteProduct(id): no lock is taken.                                    *)
(***************************************************************************)
\* Lines 167-171: GetByID.
DeleteCallUpTo(p, id, maxCalls) ==
    /\ proc[p].pc = "idle"
    /\ calls < maxCalls
    /\ calls' = calls + 1
    /\ LET g == RepoGetByID(products, id)
       IN  IF g.err # ""
           THEN /\ last' = [last EXCEPT ![p] =
                              [NoCall EXCEPT !.op = "delete", !.id = id, !.err = g.err]]
                /\ UNCHANGED proc
           ELSE /\ proc' = [proc EXCEPT ![p] =
                              [IdleProc EXCEPT !.pc = "del_build", !.key = id,
                                               !.product = g.addr,
                                               !.start = CommittedVersion(id)]]
                /\ UNCHANGED last
    /\ UNCHANGED <<mem, products, events, locks, sequence, uuids, now, published, held>>
    /\ UNCHANGED others

DeleteCall(p, id) == DeleteCallUpTo(p, id, MaxCalls)

\* Lines 173-188: the deletion event, pointing at the live product.
DeleteBuildWith(M, id, product, sq, prevHash) ==
    [Type |-> EventProductDeleted, EntityID |-> id,
     Version |-> M.structs[product].Version + 1, Sequence |-> sq,
     Data |-> [ProductID |-> id, Action |-> "deleted", Product |-> product,
               Version |-> M.structs[product].Version + 1,
               PrevHash |-> prevHash, Changes |-> 0]]

\* A deletion event without the hash of what it deletes.
DeleteBuildNoPrev(M, id, product, sq) ==
    DeleteBuildWith(M, id, product, sq, NoHash)

\* Line 185: PrevHash is product.LastHash.
DeleteBuild(M, id, product, sq) ==
    DeleteBuildWith(M, id, product, sq, M.structs[product].LastHash)

DeleteMake(p) ==
    /\ proc[p].pc = "del_build"
    /\ proc' = [proc EXCEPT ![p].pc = "del_store",
                            ![p].event = DeleteBuild(mem, proc[p].key, proc[p].product,
                                                     getNextSequence(sequence))]
    /\ sequence' = getNextSequence(sequence)
    /\ UNCHANGED <<mem, products, events, locks, uuids, now, last, calls, published, held>>
    /\ UNCHANGED others

\* Lines 190-193: s.repo.StoreEvent(event).
DeleteStore(p) ==
    /\ proc[p].pc = "del_store"
    /\ LET r == StoreEvent(mem, events, proc[p].event)
       IN  /\ mem' = r.mem
           /\ events' = r.events
    /\ proc' = [proc EXCEPT ![p].pc = "del_commit"]
    /\ UNCHANGED <<products, locks, sequence, uuids, now, last, calls, published, held>>
    /\ UNCHANGED others

\* Lines 195-198: s.repo.Delete(id), under r.mu.
DeleteCommit(p) ==
    /\ proc[p].pc = "del_commit"
    /\ LET r == RepoDelete(products, proc[p].key)
       IN  IF r.err # ""
           THEN /\ Return(p, "delete", proc[p].key, r.err)
                /\ UNCHANGED products
           ELSE /\ products' = r.products
                /\ proc' = [proc EXCEPT ![p].pc = "del_publish"]
                /\ UNCHANGED last
    /\ UNCHANGED <<mem, events, locks, sequence, uuids, now, calls, published, held>>
    /\ UNCHANGED others

\* Lines 200-201: return s.publisher.Publish(event).
DeletePublish(p, outcome) ==
    /\ proc[p].pc = "del_publish"
    /\ published' = published \cup {Published(proc[p].event)}
    /\ Return(p, "delete", proc[p].key, outcome)
    /\ UNCHANGED <<mem, products, events, locks, sequence, uuids, now, calls, held>>
    /\ UNCHANGED others

(***************************************************************************)
(* Time and the cleanup goroutine of the lock manager.                     *)
(***************************************************************************)
Tick ==
    /\ now < MaxTime
    /\ now' = now + 1
    /\ UNCHANGED <<mem, products, events, locks, sequence, uuids, proc, last,
                   calls, published, held>>
    /\ UNCHANGED others

\* One firing of the 100ms ticker in cleanupExpiredLocks.
Sweep ==
    /\ locks' = cleanupExpiredLocks(locks, now)
    /\ UNCHANGED <<mem, products, events, sequence, uuids, now, proc, last,
                   calls, published, held>>
    /\ UNCHANGED others

(***************************************************************************)
(* The service under concurrent callers.                                   *)
(***************************************************************************)
Init ==
    /\ mem = EmptyMem
    /\ products = <<>>
    /\ events = <<>>
    /\ locks = <<>>
    /\ sequence = 0
    /\ uuids = 0
    /\ now = 0
    /\ proc = [p \in Procs |-> IdleProc]
    /\ last = [p \in Procs |-> NoCall]
    /\ calls = 0
    /\ published = {}
    /\ held = [own |-> {}, got |-> {}, chg |-> {}, uv |-> EmptyBag]
    /\ mu = 0
    /\ batch = NoBatch
    /\ pub = NoPublisher
    /\ lim = NoLimiter

Next ==
    \/ \E p \in Procs : CreateCall(p, 1, "t1")
    \/ \E p \in Procs : CreateStore(p)
    \/ \E p \in Procs : CreateCommit(p)
    \/ \E p \in Procs, o \in PublishOutcomes : CreatePublish(p, o)
    \/ \E p \in Procs, id \in 1..uuids, v \in 1..MaxVersion, t \in Titles :
          UpdateCall(p, id, v, t)
    \/ \E p \in Procs : UpdateGet(p)
    \/ \E p \in Procs : UpdateMake(p)
    \/ \E p \in Procs : UpdateStore(p)
    \/ \E p \in Procs : UpdateCommit(p)
    \/ \E p \in Procs : UpdateCopyBack(p)
    \/ \E p \in Procs, o \in PublishOutcomes : UpdatePublish(p, o)
    \/ \E p \in Procs : UpdateExit(p)
    \/ \E p \in Procs, id \in 1..uuids : DeleteCall(p, id)
    \/ \E p \in Procs : DeleteMake(p)
    \/ \E p \in Procs : DeleteStore(p)
    \/ \E p \in Procs : DeleteCommit(p)
    \/ \E p \in Procs, o \in PublishOutcomes : DeletePublish(p, o)
    \/ Tick
    \/ Sweep

Spec == Init /\ [][Next]_vars

(***************************************************************************)
(* ReplayEvents(productID, fromVersion).                                   *)
(***************************************************************************)
\* sort.Slice by Version (insertion into an ascending sequence; two events
\* of equal version, whatever their order, fail the version check below).
RECURSIVE InsertByVersion(_, _)
InsertByVersion(sorted, e) ==
    IF sorted = <<>> THEN <<e>>
    ELSE IF e.Version < Head(sorted).Version THEN <<e>> \o sorted
         ELSE <<Head(sorted)>> \o InsertByVersion(Tail(sorted), e)

RECURSIVE SortByVersion(_)
SortByVersion(evs) ==
    IF evs = <<>> THEN <<>>
    ELSE InsertByVersion(SortByVersion(SubSeq(evs, 1, Len(evs) - 1)), evs[Len(evs)])

\* Lines 351-392: the chain check, from index i on; "" when the chain is good.
RECURSIVE VerifyChain(_, _, _)
VerifyChain(M, evs, i) ==
    IF i > Len(evs) THEN ""
    ELSE IF i = 1
         THEN IF evs[1].Type = EventProductCreated
              THEN IF evs[1].Data.PrevHash # NoHash
                   THEN "create event should not have prev hash"
                   ELSE VerifyChain(M, evs, 2)
              ELSE IF evs[1].Data.PrevHash = NoHash
                   THEN "non-create event must have prev hash"
                   ELSE VerifyChain(M, evs, 2)
         ELSE IF evs[i].Version # evs[i - 1].Version + 1
              THEN "event chain broken"
              ELSE IF evs[i].Data.PrevHash # M.structs[evs[i - 1].Data.Product].LastHash
                   THEN "event chain integrity violated"
                   ELSE VerifyChain(M, evs, i + 1)

\* A replay that hands back what it sorted without looking at the chain.
ReplayUnverified(M, sorted) == [err |-> "", events |-> sorted, mem |-> M]

\* Lines 351-394 on the sorted events: nil and the error of the first rule
\* that fails, the events themselves when none does.
ReplayVerified(M, sorted) ==
    LET e == VerifyChain(M, sorted, 1)
    IN  IF e # "" THEN [err |-> e, events |-> <<>>, mem |-> M]
                  ELSE [err |-> "", events |-> sorted, mem |-> M]

\* ReplayEvents: the events read, sorted and verified; nil and an error when
\* the chain check fails.  mem is the heap holding the returned snapshots.
ReplayEvents(M, E, productID, fromVersion) ==
    LET g == GetEvents(M, E, productID, fromVersion)
    IN  ReplayVerified(g.mem, SortByVersion(g.events))

(***************************************************************************)
(* What callers do with the Product values they hold, between calls.       *)
(***************************************************************************)
PriceValues == {100, 200}
AttrValues  == {1, 2}

\* product.BaseTitle = t
MutateTitle(a, t) ==
    /\ mem.structs[a].BaseTitle # t
    /\ mem' = [mem EXCEPT !.structs[a].BaseTitle = t]

\* product.Prices[0].Amount = v
MutatePrice(a, v) ==
    /\ mem.structs[a].Prices # 0
    /\ mem.arrs[mem.structs[a].Prices] # <<>>
    /\ mem.arrs[mem.structs[a].Prices][1].Amount # v
    /\ mem' = [mem EXCEPT !.arrs[mem.structs[a].Prices][1].Amount = v]

\* product.Variants[0].Attributes["color"] = v
MutateAttr(a, v) ==
    /\ mem.structs[a].Variants # 0
    /\ mem.varrs[mem.structs[a].Variants] # <<>>
    /\ LET r == mem.varrs[mem.structs[a].Variants][1].Attributes
       IN  /\ r # 0
           /\ mem.maps[r] # v
           /\ mem' = [mem EXCEPT !.maps[r] = v]

\* Any one of the writes above, on the value at address a.
CallerWrite(a) ==
    \/ \E t \in Titles : MutateTitle(a, t)
    \/ \E v \in PriceValues : MutatePrice(a, v)
    \/ \E v \in AttrValues : MutateAttr(a, v)

\* A goroutine writes into a value it holds, whatever the others do.
Mutate(a) ==
    /\ a \in held.own \cup held.got
    /\ CallerWrite(a)
    /\ UNCHANGED <<products, events, locks, sequence, uuids, now, proc, last,
                   calls, published, held>>
    /\ UNCHANGED others

\* product.UpdateVersion() (product.go lines 90-93) called by the goroutine
\* that makes the service calls, between two of them: p.Version++ and
\* p.LastHash = p.CalculateHash() with nothing running beside them; one of
\* the at most MaxCalls calls of the behaviour.
UpdateVersion(a) ==
    /\ a \in held.own \cup held.got
    /\ calls < MaxCalls
    /\ calls' = calls + 1
    /\ LET s1 == [mem.structs[a] EXCEPT !.Version = @ + 1]
       IN  mem' = [mem EXCEPT !.structs[a] =
                     [s1 EXCEPT !.LastHash = CalculateHashOf(mem, s1)]]
    /\ UNCHANGED <<products, events, locks, sequence, uuids, now, proc, last,
                   published, held>>
    /\ UNCHANGED others

\* No call of the service is running: where a caller that uses the service
\* from one goroutine does its own writes.
BetweenCalls == \A p \in Procs : proc[p].pc = "idle"

\* GetProduct(id): the caller now holds the pointer stored in the live table.
GetProduct(p, id) ==
    /\ proc[p].pc = "idle"
    /\ RepoGetByID(products, id).err = ""
    /\ RepoGetByID(products, id).addr \notin held.got
    /\ held' = [held EXCEPT !.got = @ \cup {RepoGetByID(products, id).addr}]
    /\ UNCHANGED <<mem, products, events, locks, sequence, uuids, now, proc, last,
                   calls, published>>
    /\ UNCHANGED others

\* UpdateProduct called with a value the caller already holds.
UpdateHeld(p, a) ==
    /\ a \in held.own \cup held.got
    /\ UpdateEnter(p, mem, a)
    /\ UNCHANGED held

(***************************************************************************)
(* The service used by one caller, sequentially, who keeps and mutates the *)
(* values it passed in and got back.                                       *)
(***************************************************************************)
DraftKinds == {1, 2}

NextSeq ==
    \/ \E k \in DraftKinds : CreateCall(1, k, "t1")
    \/ CreateStore(1)
    \/ CreateCommit(1)
    \/ \E o \in PublishOutcomes : CreatePublish(1, o)
    \/ \E id \in 1..uuids, v \in 1..MaxVersion : UpdateCall(1, id, v, "t2")
    \/ \E a \in held.own \cup held.got : UpdateHeld(1, a)
    \/ UpdateGet(1)
    \/ UpdateMake(1)
    \/ UpdateStore(1)
    \/ UpdateCommit(1)
    \/ UpdateCopyBack(1)
    \/ \E o \in PublishOutcomes : UpdatePublish(1, o)
    \/ UpdateExit(1)
    \/ \E id \in 1..uuids : DeleteCall(1, id)
    \/ DeleteMake(1)
    \/ DeleteStore(1)
    \/ DeleteCommit(1)
    \/ \E o \in PublishOutcomes : DeletePublish(1, o)
    \/ \E id \in 1..uuids : GetProduct(1, id)
    \/ \E a \in held.own \cup held.got : BetweenCalls /\ Mutate(a)
    \/ \E a \in held.own \cup held.got : BetweenCalls /\ UpdateVersion(a)

SpecSeq == Init /\ [][NextSeq]_vars

(***************************************************************************)
(* Properties of the service under concurrent callers (Spec).              *)
(***************************************************************************)
\* The call committed its change (a failing publisher does not undo it).
Committed(c) == c.err = "" \/ c.err = ErrPublish

\* Two finished UpdateProduct calls of different goroutines on the same id,
\* both carrying the version that was committed when each of them started.
SameVersionUpdates(p, q) ==
    /\ p # q
    /\ proc[p].pc = "idle" /\ proc[q].pc = "idle"
    /\ last[p].op = "update" /\ last[q].op = "update"
    /\ last[p].id # 0 /\ last[p].id = last[q].id
    /\ last[p].ver = last[q].ver
    /\ last[p].start = last[p].ver /\ last[q].start = last[q].ver

\* C1: of two concurrent UpdateProduct calls on one id that both carry the
\* committed version v, exactly one commits and the other fails with a
\* version conflict or a lock failure, and the committed version is v+1.
C1_ExactlyOneUpdateWins ==
    \A p, q \in Procs :
        (SameVersionUpdates(p, q) /\ Committed(last[p])) =>
            /\ last[q].err \in {ErrVersionConflict, ErrNotAcquired}
            /\ CommittedVersion(last[p].id) = last[p].ver + 1

\* The versions of the events stored for one entity id.
EventIndexes(id) == {i \in 1..Len(events) : events[i].EntityID = id}

\* C2: in every reachable state the events stored for one entity id have
\* the versions 1..n, each exactly once.
C2_VersionsContiguous ==
    \A id \in 1..uuids :
        /\ {events[i].Version : i \in EventIndexes(id)} = 1..Cardinality(EventIndexes(id))

\* The goroutine is between its successful AcquireLock and its ReleaseLock.
InLock(p, k) ==
    /\ proc[p].pc \in {"upd_get", "upd_build", "upd_store", "upd_commit", "upd_copy",
                     "upd_publish", "upd_exit"}
    /\ proc[p].acquired
    /\ proc[p].key = k

\* C3: at most one UpdateProduct call per product id is between its
\* successful AcquireLock and its ReleaseLock.
C3_OneWriterInLock ==
    \A p, q \in Procs : \A k \in 1..uuids :
        (InLock(p, k) /\ InLock(q, k)) => p = q

\* C9: an UpdateProduct call that acquired the lock has, when it returns on
\* any path, called ReleaseLock exactly once, and the key is then unlocked.
C9_LockReleasedOnReturn ==
    [][\A p \in Procs :
          (proc[p].acquired /\ proc'[p].pc = "idle") =>
              /\ last'[p].released = 1
              /\ proc[p].key \notin DOMAIN locks']_vars

\* An update that found a version conflict has returned and left no lock.
C9_Witness ==
    \E p \in Procs :
        /\ proc[p].pc = "idle"
        /\ last[p].op = "update" /\ last[p].acquired
        /\ last[p].err = ErrVersionConflict
        /\ last[p].released = 1
        /\ last[p].id \notin DOMAIN locks

(***************************************************************************)
(* Properties of the service used sequentially (SpecSeq).                  *)
(***************************************************************************)
\* Everything a reader of the Product at address a can see.
View(M, a) ==
    LET s == M.structs[a]
    IN  [ID |-> s.ID, SKU |-> s.SKU, BaseTitle |-> s.BaseTitle,
         Description |-> s.Description, Prices |-> JsonArr(M, s.Prices),
         Variants |-> JsonVariants(M, s.Variants),
         Metadata |-> JsonArr(M, s.Metadata), Version |-> s.Version,
         LastHash |-> s.LastHash]

\* C4: after a create and sequential updates, ReplayEvents(id, 1) returns
\* without error the events of versions 1, 2, 3, ... in this order, the first
\* the creation event with empty prev_hash, each later prev_hash equal to the
\* last_hash of the snapshot before it.
C4_ReplayChain ==
    \A id \in 1..uuids :
        LET n == Cardinality(EventIndexes(id))
            r == ReplayEvents(mem, events, id, 1)
        IN  n > 0 =>
              /\ r.err = ""
              /\ Len(r.events) = n
              /\ \A i \in 1..n : r.events[i].Version = i
              /\ r.events[1].Type = EventProductCreated
              /\ r.events[1].Data.PrevHash = NoHash
              /\ \A i \in 2..n :
                    r.events[i].Data.PrevHash =
                        r.mem.structs[r.events[i - 1].Data.Product].LastHash

\* C5: every aggregate in the live table has last_hash equal to
\* CalculateHash of its own current semantic fields.
C5_LiveHashCurrent ==
    \A id \in DOMAIN products :
        mem.structs[products[id]].LastHash = CalculateHash(mem, products[id])

\* C7: a caller writing into a product it passed to CreateProduct or
\* UpdateProduct, after the call returned, leaves the aggregate that
\* GetProduct returns unchanged.
C7_CommittedUnshared ==
    [][\A a \in held.own :
          Mutate(a) =>
              \A id \in DOMAIN products :
                  View(mem', products[id]) = View(mem, products[id])]_vars

(***************************************************************************)
(* The lock manager on its own: goroutines calling AcquireLock,            *)
(* ReleaseLock and RefreshLock while the cleanup goroutine runs.           *)
(* AcquireLock is taken apart at m.mu, so calls overlap.                   *)
(***************************************************************************)
LockKeys == {1, 2}      \* resource ids
TTLs     == {0, 1, 2}   \* ttl arguments, in ticks

\* m.mu.Lock() proceeds.
MuFree == mu = 0

\* The key is free for the taking at time t: no entry, or an expired one.
Unlocked(L, k, t) == k \notin DOMAIN L \/ ~(t < L[k].expiresAt)

InAcquire(q, k) ==
    proc[q].pc \in {"acq_mu", "acq_check", "acq_install"} /\ proc[q].key = k

LockResult(p, op, k, ok, err) ==
    [NoCall EXCEPT !.op = op, !.id = k, !.acquired = ok, !.err = err,
                   !.ttl = proc[p].ttl, !.at = proc[p].t, !.lost = proc[p].lost]

\* Lines 36-39: the call and its ctx.Err() check.  free remembers that the
\* key was unlocked when the call was made.
AcquireCall(p, k, ttl, cancelled) ==
    /\ proc[p].pc = "idle"
    /\ calls < MaxCalls
    /\ calls' = calls + 1
    /\ IF ctxErr(cancelled) # ""
       THEN /\ last' = [last EXCEPT ![p] =
                          [NoCall EXCEPT !.op = "acquire", !.id = k,
                                         !.err = ctxErr(cancelled)]]
            /\ UNCHANGED proc
       ELSE /\ proc' = [proc EXCEPT ![p] =
                          [IdleProc EXCEPT !.pc = "acq_mu", !.key = k, !.ttl = ttl,
                                           !.free = Unlocked(locks, k, now)]]
            /\ UNCHANGED last
    /\ UNCHANGED <<mem, products, events, locks, sequence, uuids, now,
                   published, held, mu, batch,
                   pub, lim>>

\* Lines 41-44: m.mu.Lock() and now := time.Now().
AcquireEnter(p) ==
    /\ proc[p].pc = "acq_mu"
    /\ MuFree
    /\ mu' = p
    /\ proc' = [proc EXCEPT ![p].pc = "acq_check", ![p].t = now]
    /\ UNCHANGED <<mem, products, events, locks, sequence, uuids, now, last, calls,
                   published, held, batch,
                   pub, lim>>

\* Lines 45-48: an unexpired lock exists, return false (and unlock m.mu).
AcquireCheck(p) ==
    /\ proc[p].pc = "acq_check"
    /\ IF Unexpired(locks, proc[p].key, proc[p].t)
       THEN /\ last' = [last EXCEPT ![p] =
                          LockResult(p, "acquire", proc[p].key, FALSE, "")]
            /\ proc' = [proc EXCEPT ![p] = IdleProc]
            /\ mu' = 0
       ELSE /\ proc' = [proc EXCEPT ![p].pc = "acq_install"]
            /\ UNCHANGED <<last, mu>>
    /\ UNCHANGED <<mem, products, events, locks, sequence, uuids, now, calls,
                   published, held, batch,
                   pub, lim>>

\* Lines 49-56: the lock is installed and true returned.  Every call
\* still under way that, like this one, was made on the unlocked key has
\* now lost the race.
AcquireInstall(p) ==
    /\ proc[p].pc = "acq_install"
    /\ locks' = InstallLock(locks, proc[p].key, proc[p].ttl, proc[p].t)
    /\ last' = [last EXCEPT ![p] = LockResult(p, "acquire", proc[p].key, TRUE, "")]
    /\ proc' = [q \in Procs |->
                  IF q = p THEN IdleProc
                  ELSE IF InAcquire(q, proc[p].key) /\ proc[q].free /\ proc[p].free
                       THEN [proc[q] EXCEPT !.lost = TRUE]
                       ELSE proc[q]]
    /\ mu' = 0
    /\ UNCHANGED <<mem, products, events, sequence, uuids, now, calls,
                   published, held, batch,
                   pub, lim>>

\* ReleaseLock(resourceID), lines 59-64.
ReleaseCall(p, k) ==
    /\ proc[p].pc = "idle"
    /\ MuFree
    /\ calls < MaxCalls
    /\ calls' = calls + 1
    /\ locks' = ReleaseLock(locks, k)
    /\ last' = [last EXCEPT ![p] = [NoCall EXCEPT !.op = "release", !.id = k]]
    /\ UNCHANGED <<mem, products, events, sequence, uuids, now, proc,
                   published, held, mu, batch,
                   pub, lim>>

\* RefreshLock(resourceID, ttl), lines 66-75.
RefreshCall(p, k, ttl) ==
    /\ proc[p].pc = "idle"
    /\ MuFree
    /\ calls < MaxCalls
    /\ calls' = calls + 1
    /\ locks' = RefreshLock(locks, k, ttl, now)
    /\ last' = [last EXCEPT ![p] = [NoCall EXCEPT !.op = "refresh", !.id = k]]
    /\ UNCHANGED <<mem, products, events, sequence, uuids, now, proc,
                   published, held, mu, batch,
                   pub, lim>>

\* One firing of the ticker of cleanupExpiredLocks, lines 83-91.
LockSweep ==
    /\ MuFree
    /\ locks' = cleanupExpiredLocks(locks, now)
    /\ UNCHANGED <<mem, products, events, sequence, uuids, now, proc, last, calls,
                   published, held, mu, batch,
                   pub, lim>>

NextLock ==
    \/ \E p \in Procs, k \in LockKeys, ttl \in TTLs, c \in BOOLEAN :
          AcquireCall(p, k, ttl, c)
    \/ \E p \in Procs : AcquireEnter(p)
    \/ \E p \in Procs : AcquireCheck(p)
    \/ \E p \in Procs : AcquireInstall(p)
    \/ \E p \in Procs, k \in LockKeys : ReleaseCall(p, k)
    \/ \E p \in Procs, k \in LockKeys, ttl \in TTLs : RefreshCall(p, k, ttl)
    \/ LockSweep
    \/ Tick

SpecLock == Init /\ [][NextLock]_vars

\* An AcquireLock call of p returns in this step.
AcquireReturns(p) ==
    proc[p].pc \in {"acq_check", "acq_install"} /\ proc'[p].pc = "idle"

\* First part of C10: on a key holding an unexpired lock the call returns
\* false and the lock table is left as it was.
AcquireRefused ==
    \A p \in Procs :
        (/\ AcquireReturns(p)
         /\ proc[p].key \in DOMAIN locks
         /\ now < locks[proc[p].key].expiresAt)
        => /\ ~last'[p].acquired
           /\ last'[p].err = ""
           /\ locks' = locks

\* Second part of C10: on an unlocked key (none, or one expired when the
\* call read the clock) the call installs a lock expiring at its
\* time.Now() + ttl, returns true and touches no other key.
AcquireGranted ==
    \A p \in Procs :
        (AcquireReturns(p) /\ Unlocked(locks, proc[p].key, proc[p].t))
        => /\ last'[p].acquired
           /\ last'[p].err = ""
           /\ locks' = [x \in DOMAIN locks \cup {proc[p].key} |->
                          IF x = proc[p].key
                          THEN [owner |-> "owner",
                                expiresAt |-> proc[p].t + proc[p].ttl]
                          ELSE locks[x]]
           /\ proc[p].t <= now

\* Third part of C10 as the spec words it: a caller that has lost the race
\* for an unlocked key to a concurrent caller gets false.
LoserRefused ==
    \A p \in Procs : (AcquireReturns(p) /\ proc[p].lost) => ~last'[p].acquired

\* Third part of C10, amended: the loser gets false as long as the lock the
\* winner installed is still there and unexpired.
LoserRefusedWhileHeld ==
    \A p \in Procs :
        (/\ AcquireReturns(p)
         /\ proc[p].lost
         /\ proc[p].key \in DOMAIN locks
         /\ now < locks[proc[p].key].expiresAt)
        => ~last'[p].acquired

\* C10 (as stated): AcquireLock on a key that holds an unexpired lock returns
\* false and leaves that lock unchanged; on an unlocked key it installs a
\* lock expiring at now + ttl and returns true; of several callers calling
\* it concurrently on the same unlocked key exactly one gets true.
C10_AcquireLockAsStated ==
    [][AcquireRefused /\ AcquireGranted /\ LoserRefused]_vars

\* C10 (amended): the same, where of the concurrent callers exactly one gets
\* true for as long as the winner's lock is neither expired nor released:
\* the first to run is granted (second part) and the others are refused
\* while that lock stands.
C10_AcquireLock ==
    [][AcquireRefused /\ AcquireGranted /\ LoserRefusedWhileHeld]_vars

\* Two callers raced for an unlocked key: one was granted, the other, which
\* had lost the race, was refused and the winner's lock is in the table.
C10_Witness ==
    \E p, q \in Procs :
        /\ p # q
        /\ proc[p].pc = "idle" /\ proc[q].pc = "idle"
        /\ last[p].op = "acquire" /\ last[p].acquired /\ last[p].ttl > 0
        /\ last[q].op = "acquire" /\ ~last[q].acquired /\ last[q].err = ""
        /\ last[q].lost
        /\ last[p].id = last[q].id
        /\ last[p].id \in DOMAIN locks
        /\ locks[last[p].id].expiresAt = last[p].at + last[p].ttl

(***************************************************************************)
(* Product.Clone on its own: a caller holds a product, clones what it      *)
(* holds and writes into the values.                                       *)
(***************************************************************************)
AllKinds    == {0, 1, 2}   \* 0: Prices and Metadata nil; 2: with a variant
StockValues == {5, 6}
MetaValues  == {"m1", "m2"}

\* product.Variants[0].Stock[0].Quantity = v
MutateStock(a, v) ==
    /\ mem.structs[a].Variants # 0
    /\ mem.varrs[mem.structs[a].Variants] # <<>>
    /\ LET r == mem.varrs[mem.structs[a].Variants][1].Stock
       IN  /\ r # 0
           /\ mem.arrs[r] # <<>>
           /\ mem.arrs[r][1].Quantity # v
           /\ mem' = [mem EXCEPT !.arrs[r][1].Quantity = v]

\* product.Metadata[0].Title = v
MutateMetadata(a, v) ==
    /\ mem.structs[a].Metadata # 0
    /\ mem.arrs[mem.structs[a].Metadata] # <<>>
    /\ mem.arrs[mem.structs[a].Metadata][1].Title # v
    /\ mem' = [mem EXCEPT !.arrs[mem.structs[a].Metadata][1].Title = v]

\* product.Variants[0].ID = v
MutateVariantID(a, v) ==
    /\ mem.structs[a].Variants # 0
    /\ mem.varrs[mem.structs[a].Variants] # <<>>
    /\ mem.varrs[mem.structs[a].Variants][1].ID # v
    /\ mem' = [mem EXCEPT !.varrs[mem.structs[a].Variants][1].ID = v]

\* A caller writes into the collections of a value it holds.
MutateDeep(a) ==
    /\ a \in held.own \cup held.got
    /\ \/ \E v \in StockValues : MutateStock(a, v)
       \/ \E v \in MetaValues : MutateMetadata(a, v)
       \/ \E v \in AttrValues : MutateVariantID(a, v)
    /\ UNCHANGED <<products, events, locks, sequence, uuids, now, proc, last,
                   calls, published, held>>
    /\ UNCHANGED others

\* c := p.Clone() for a value p the caller holds.
CloneCall(a) ==
    /\ a \in held.own \cup held.got
    /\ calls < MaxClones
    /\ calls' = calls + 1
    /\ mem' = Clone(mem, a).mem
    /\ held' = [held EXCEPT !.got = @ \cup {Clone(mem, a).addr}]
    /\ UNCHANGED <<products, events, locks, sequence, uuids, now, proc, last,
                   published>>
    /\ UNCHANGED others

InitClone ==
    /\ \E k \in AllKinds, t \in Titles : mem = NewDraft(EmptyMem, k, t).mem
    /\ held = [own |-> {1}, got |-> {}, chg |-> {}, uv |-> EmptyBag]
    /\ products = <<>>
    /\ events = <<>>
    /\ locks = <<>>
    /\ sequence = 0
    /\ uuids = 0
    /\ now = 0
    /\ proc = [p \in Procs |-> IdleProc]
    /\ last = [p \in Procs |-> NoCall]
    /\ calls = 0
    /\ published = {}
    /\ mu = 0
    /\ batch = NoBatch
    /\ pub = NoPublisher
    /\ lim = NoLimiter

NextClone ==
    \/ \E a \in held.own \cup held.got : CloneCall(a)
    \/ \E a \in held.own \cup held.got : Mutate(a)
    \/ \E a \in held.own \cup held.got : MutateDeep(a)

SpecClone == InitClone /\ [][NextClone]_vars

\* C8: Clone returns an aggregate that owns all of its collections: no
\* write into the prices, metadata or variants (attributes map and stock
\* list included) of one of the values is visible through another.
C8_CloneOwnsCollections ==
    [][\A a \in held.own \cup held.got :
          (Mutate(a) \/ MutateDeep(a)) =>
              \A b \in (held.own \cup held.got) \ {a} :
                  View(mem', b) = View(mem, b)]_vars

\* The part of C8 that the code keeps: the title, the prices, the metadata
\* and the fields of a variant struct are the clone's own.
CloneOwnsTopLevel ==
    [][\A a \in held.own \cup held.got :
          (\/ \E t \in Titles : MutateTitle(a, t)
           \/ \E v \in PriceValues : MutatePrice(a, v)
           \/ \E v \in MetaValues : MutateMetadata(a, v)
           \/ \E v \in AttrValues : MutateVariantID(a, v)) =>
              \A b \in (held.own \cup held.got) \ {a} :
                  View(mem', b) = View(mem, b)]_vars

(***************************************************************************)
(* The event store on its own: a caller builds events, stores them,        *)
(* queries them and writes into everything it holds.                       *)
(***************************************************************************)
StoreTypes == {EventProductCreated, EventProductUpdated}

\* The product and the event a caller builds for entity 1 at version ver,
\* as createTestEvent of the store's tests does: Changes is left nil.
NewEvent(M, kind, ver, type, prevHash) ==
    LET d  == NewDraft(M, kind, "t1")
        s1 == [d.mem.structs[d.addr] EXCEPT !.ID = 1, !.Version = ver]
        s2 == [s1 EXCEPT !.LastHash = CalculateHashOf(d.mem, s1)]
        m1 == [d.mem EXCEPT !.structs[d.addr] = s2]
    IN  [mem   |-> m1,
         event |-> [Type |-> type, EntityID |-> 1, Version |-> ver, Sequence |-> ver,
                    Data |-> [ProductID |-> 1, Action |-> type, Product |-> d.addr,
                              Version |-> ver, PrevHash |-> prevHash,
                              Changes |-> 0]]]

\* The event n with the Changes UpdateProduct gives its events (line 145
\* of product_service.go): calculateChanges(current, updatedProduct), for a
\* current product whose title was `before`.
WithChanges(n, before) ==
    LET new == n.mem.structs[n.event.Data.Product]
        m   == [n.mem EXCEPT !.chgs =
                  Append(@, calculateChanges([new EXCEPT !.BaseTitle = before], new))]
    IN  [mem   |-> m,
         event |-> [n.event EXCEPT !.Data.Changes = Len(m.chgs)]]

\* The LastHash of the snapshot stored last ("" for an empty store).
LastStoredHash ==
    IF events = <<>> THEN NoHash
    ELSE mem.structs[events[Len(events)].Data.Product].LastHash

\* store.StoreEvent(event) with an event the caller built and keeps: the
\* event of the store's tests or, with changes, an update event as the
\* service builds it.
StoreCall(kind, ver, type, changes) ==
    /\ calls < MaxStoreCalls
    /\ calls' = calls + 1
    /\ changes => type = EventProductUpdated
    /\ LET n0 == NewEvent(mem, kind, ver, type, LastStoredHash)
           n  == IF changes THEN WithChanges(n0, "t2") ELSE n0
           r  == StoreEvent(n.mem, events, n.event)
       IN  /\ mem' = r.mem
           /\ events' = r.events
           /\ held' = [held EXCEPT
                         !.own = @ \cup {n.event.Data.Product},
                         !.chg = @ \cup ({n.event.Data.Changes} \ {0})]
    /\ UNCHANGED <<products, locks, sequence, uuids, now, proc, last, published>>
    /\ UNCHANGED others

\* store.GetEvents(1, fromVersion): the caller holds what came back.
GetEventsCall(fromVersion) ==
    /\ calls < MaxStoreCalls
    /\ calls' = calls + 1
    /\ LET g == GetEvents(mem, events, 1, fromVersion)
       IN  /\ g.events # <<>>
           /\ mem' = g.mem
           /\ held' = [held EXCEPT
                         !.got = @ \cup {g.events[i].Data.Product :
                                            i \in 1..Len(g.events)},
                         !.chg = @ \cup ({g.events[i].Data.Changes :
                                            i \in 1..Len(g.events)} \ {0})]
    /\ UNCHANGED <<products, events, locks, sequence, uuids, now, proc, last,
                   published>>
    /\ UNCHANGED others

\* Lines 66-75 of event_store.go: the index of the first event of the
\* entity whose version is above every version before it (0 when none).
RECURSIVE LatestEvent(_, _, _, _, _)
LatestEvent(E, entityID, i, latest, latestVersion) ==
    IF i > Len(E) THEN latest
    ELSE IF E[i].EntityID = entityID /\ E[i].Version > latestVersion
         THEN LatestEvent(E, entityID, i + 1, i, E[i].Version)
         ELSE LatestEvent(E, entityID, i + 1, latest, latestVersion)

\* MemoryEventStore.GetSnapshot: the Product pointer of the latest stored
\* event itself, and its version; nil and 0 when the entity has no event.
GetSnapshot(E, entityID) ==
    LET k == LatestEvent(E, entityID, 1, 0, 0)
    IN  IF k = 0 THEN [addr |-> 0, version |-> 0]
        ELSE [addr |-> E[k].Data.Product, version |-> E[k].Version]

\* store.GetSnapshot(1): the caller holds the pointer that came back.
GetSnapshotCall ==
    /\ calls < MaxStoreCalls
    /\ calls' = calls + 1
    /\ GetSnapshot(events, 1).addr # 0
    /\ held' = [held EXCEPT !.got = @ \cup {GetSnapshot(events, 1).addr}]
    /\ UNCHANGED <<mem, products, events, locks, sequence, uuids, now, proc, last,
                   published>>
    /\ UNCHANGED others

\* event.Data.Changes[0].NewValue = t, through a slice the caller holds.
MutateChange(r, t) ==
    /\ r \in held.chg
    /\ mem.chgs[r] # <<>>
    /\ mem.chgs[r][1].NewValue # t
    /\ mem' = [mem EXCEPT !.chgs[r][1].NewValue = t]
    /\ UNCHANGED <<products, events, locks, sequence, uuids, now, proc, last,
                   calls, published, held>>
    /\ UNCHANGED others

NextStore ==
    \/ \E k \in DraftKinds, v \in 1..MaxVersion, ty \in StoreTypes, c \in BOOLEAN :
          StoreCall(k, v, ty, c)
    \/ \E v \in 1..MaxVersion : GetEventsCall(v)
    \/ GetSnapshotCall
    \/ \E a \in held.own \cup held.got : Mutate(a)
    \/ \E r \in held.chg, t \in Titles : MutateChange(r, t)

SpecStore == Init /\ [][NextStore]_vars

\* What GetEvents(1, 1) returns in memory M with log E, by value.
Returned(M, E) ==
    LET g == GetEvents(M, E, 1, 1)
    IN  [i \in 1..Len(g.events) |->
            [Type     |-> g.events[i].Type,
             EntityID |-> g.events[i].EntityID,
             Version  |-> g.events[i].Version,
             Sequence |-> g.events[i].Sequence,
             Action   |-> g.events[i].Data.Action,
             PrevHash |-> g.events[i].Data.PrevHash,
             Product  |-> View(g.mem, g.events[i].Data.Product),
             Changes  |-> IF g.events[i].Data.Changes = 0 THEN <<>>
                          ELSE g.mem.chgs[g.events[i].Data.Changes]]]

\* C6: a stored event is independent of every value outside the log: no
\* write of a caller into the product it stored, or into an event GetEvents
\* returned, changes what a later GetEvents returns.
C6_StoredEventIndependent ==
    [][((\E a \in held.own \cup held.got : Mutate(a))
        \/ (\E r \in held.chg, t \in Titles : MutateChange(r, t)))
       => Returned(mem', events') = Returned(mem, events)]_vars

\* The part of C6 the store's own test exercises: a new title, in the
\* caller's original or in a returned event, leaves the log as it was.
StoredTitleIndependent ==
    [][(\E a \in held.own \cup held.got, t \in Titles : MutateTitle(a, t))
       => Returned(mem', events') = Returned(mem, events)]_vars

(***************************************************************************)
(* Error paths of UpdateProduct (Spec).                                    *)
(***************************************************************************)
\* The live table, the log and every committed aggregate are as before.
StateKept ==
    /\ products' = products
    /\ events' = events
    /\ \A id \in DOMAIN products : View(mem', products[id]) = View(mem, products[id])
    /\ \A i \in 1..Len(events) :
          View(mem', events[i].Data.Product) = View(mem, events[i].Data.Product)

\* C11: UpdateProduct with a candidate whose version differs from the
\* committed version of its id returns a version-conflict error, and no step
\* of the call changes the live table, the log or a committed aggregate.
C11_VersionConflictKeepsState ==
    [][\A p \in Procs :
          /\ (proc[p].pc = "idle" /\ proc'[p].pc = "upd_get") => StateKept
          /\ (/\ proc[p].pc = "upd_get" /\ proc'[p].pc # "upd_get"
              /\ proc[p].key \in DOMAIN products
              /\ mem.structs[proc[p].product].Version # CommittedVersion(proc[p].key))
             => /\ proc'[p].pc = "upd_exit"
                /\ proc'[p].err = ErrVersionConflict
                /\ StateKept
          /\ (/\ proc[p].pc = "upd_exit" /\ proc'[p].pc = "idle"
              /\ proc[p].err = ErrVersionConflict)
             => /\ last'[p].op = "update"
                /\ last'[p].err = ErrVersionConflict
                /\ StateKept]_vars

\* An update carrying a stale version has returned the conflict while the
\* product stands at another version, with its events in the log.
C11_Witness ==
    \E p \in Procs :
        /\ proc[p].pc = "idle"
        /\ last[p].op = "update"
        /\ last[p].err = ErrVersionConflict
        /\ last[p].id \in DOMAIN products
        /\ last[p].ver # CommittedVersion(last[p].id)
        /\ Cardinality(EventIndexes(last[p].id)) = CommittedVersion(last[p].id)

\* C12: when AcquireLock returns false for the candidate's id (an unexpired
\* lock is on it) UpdateProduct returns the lock-contention error, which is
\* not the version-conflict error, appends no event, changes no aggregate
\* and leaves the other writer's lock where it is.
C12_LockContention ==
    [][\A p \in Procs, id \in 1..uuids, v \in 1..MaxVersion, t \in Titles :
          (/\ UpdateCall(p, id, v, t)
           /\ id \in DOMAIN locks
           /\ now < locks[id].expiresAt)
          => /\ last'[p].op = "update"
             /\ last'[p].err = ErrNotAcquired
             /\ ErrNotAcquired # ErrVersionConflict
             /\ proc'[p].pc = "idle"
             /\ locks' = locks
             /\ StateKept]_vars

\* A caller was refused while another writer is inside its locked section,
\* and that writer's lock is still in the table.
C12_Witness ==
    \E p, q \in Procs :
        /\ p # q
        /\ proc[p].pc = "idle"
        /\ last[p].op = "update"
        /\ last[p].err = ErrNotAcquired
        /\ InLock(q, last[p].id)
        /\ last[p].id \in DOMAIN locks
        /\ now < locks[last[p].id].expiresAt

(***************************************************************************)
(* What the single operations do, for one sequential caller (SpecSeq).     *)
(***************************************************************************)
\* The deletion events stored for an id.
DeletionIndexes(E, id) ==
    {i \in 1..Len(E) : E[i].EntityID = id /\ E[i].Type = EventProductDeleted}

\* C15: DeleteProduct on an existing id at version v with hash h appends
\* exactly one deletion event, of version v+1 and prev_hash h, and removes
\* the aggregate, so that GetProduct(id) then fails with not-found.
C15_DeleteAppendsAndRemoves ==
    [][\A p \in Procs :
          /\ (proc[p].pc = "del_store" /\ proc'[p].pc = "del_commit")
             => /\ Len(events') = Len(events) + 1
                /\ DeletionIndexes(events', proc[p].key) = {Len(events')}
          /\ (/\ proc[p].pc \in {"del_build", "del_commit", "del_publish"}
              /\ proc'[p].pc # proc[p].pc)
             => events' = events
          /\ (proc[p].pc = "del_commit" /\ proc'[p].pc # "del_commit"
              /\ proc[p].key \in DOMAIN products)
             => LET id == proc[p].key
                    e  == events'[Len(events')]
                IN  /\ e.Type = EventProductDeleted
                    /\ e.EntityID = id
                    /\ e.Version = CommittedVersion(id) + 1
                    /\ e.Data.Version = CommittedVersion(id) + 1
                    /\ e.Data.PrevHash = mem.structs[products[id]].LastHash
                    /\ DeletionIndexes(events', id) = {Len(events')}
                    /\ id \notin DOMAIN products'
                    /\ RepoGetByID(products', id).err = ErrProductNotFound
                    /\ proc'[p].pc = "del_publish"
          /\ (proc[p].pc = "del_publish" /\ proc'[p].pc # "del_publish")
             => /\ proc[p].key \notin DOMAIN products'
                /\ DeletionIndexes(events', proc[p].key) = {Len(events')}
                /\ proc'[p].pc = "idle"
                /\ last'[p].op = "delete"
                /\ last'[p].err \in PublishOutcomes]_vars

\* A product that had been updated was deleted: its deletion event of
\* version 3 closes the log and the live table no longer has it.
C15_Witness ==
    \E p \in Procs :
        /\ proc[p].pc = "idle"
        /\ last[p].op = "delete" /\ last[p].err = ""
        /\ last[p].id \notin DOMAIN products
        /\ events # <<>>
        /\ events[Len(events)].Type = EventProductDeleted
        /\ events[Len(events)].Version = 3
        /\ events[Len(events)].Data.PrevHash # NoHash

\* The creation and update events stored for an id.
WriteIndexes(id) ==
    {i \in EventIndexes(id) : events[i].Type # EventProductDeleted}

\* C17: the committed version is 1 after CreateProduct and grows by exactly
\* 1 with each successful UpdateProduct, which writes the same version back
\* into the caller's product; nothing else changes it, so after a create
\* and k successful updates it is k+1.
C17_VersionGrowsByOne ==
    /\ [](\A id \in DOMAIN products :
            (\A p \in Procs : proc[p].pc = "idle")
            => CommittedVersion(id) = Cardinality(WriteIndexes(id)))
    /\ [][\A id \in DOMAIN products' :
            LET v == mem'.structs[products'[id]].Version
            IN  /\ id \notin DOMAIN products => v = 1
                /\ (id \in DOMAIN products /\ v # CommittedVersion(id))
                   => \E p \in Procs :
                         /\ proc[p].pc = "upd_commit" /\ proc'[p].pc = "upd_copy"
                         /\ proc[p].key = id
                         /\ v = CommittedVersion(id) + 1]_vars
    /\ [][\A p \in Procs :
            (proc[p].pc = "upd_copy" /\ proc'[p].pc # "upd_copy")
            => /\ proc'[p].pc = "upd_publish"
               /\ mem'.structs[proc[p].product].Version = CommittedVersion(proc[p].key)
               /\ mem'.structs[proc[p].product].Version = proc[p].ver + 1]_vars

\* The creation events stored for an id.
CreationIndexes(E, id) ==
    {i \in 1..Len(E) : E[i].EntityID = id /\ E[i].Type = EventProductCreated}

\* C18: a successful CreateProduct leaves an aggregate with a non-empty id,
\* version 1 and last_hash = CalculateHash of itself in the live table under
\* that id, and exactly one creation event of it, of version 1 and empty
\* prev_hash, in the log.
C18_CreateResult ==
    [][\A p \in Procs :
          (proc[p].pc = "cre_publish" /\ proc'[p].pc = "idle" /\ last'[p].err = "")
          => LET a  == proc[p].product
                 id == mem'.structs[a].ID
             IN  /\ id # 0
                 /\ last'[p].id = id
                 /\ id \in DOMAIN products' /\ products'[id] = a
                 /\ mem'.structs[a].Version = 1
                 /\ mem'.structs[a].LastHash = CalculateHash(mem', a)
                 /\ mem'.structs[a].LastHash # NoHash
                 /\ Cardinality(EventIndexes(id)) = 1
                 /\ \A i \in CreationIndexes(events', id) :
                       /\ events'[i].Version = 1
                       /\ events'[i].Data.Version = 1
                       /\ events'[i].Data.PrevHash = NoHash
                       /\ View(mem', events'[i].Data.Product) = View(mem', a)
                 /\ Cardinality(CreationIndexes(events', id)) = 1]_vars

\* A draft with a variant was created: it is in the table at version 1.
C18_Witness ==
    \E p \in Procs :
        /\ proc[p].pc = "idle"
        /\ last[p].op = "create" /\ last[p].err = ""
        /\ last[p].id \in DOMAIN products
        /\ mem.structs[products[last[p].id]].Variants # 0
        /\ CommittedVersion(last[p].id) = 1
        /\ Len(events) = 1

(***************************************************************************)
(* Publishing (Spec).                                                      *)
(***************************************************************************)
\* The event e has been handed to the publisher in set P.
HandedOver(P, e) ==
    \E x \in P : /\ x.Type = e.Type
                 /\ x.EntityID = e.EntityID
                 /\ x.Version = e.Version
                 /\ x.Sequence = e.Sequence

\* The event e is in the log E.
Appended(E, e) ==
    \E i \in 1..Len(E) : /\ E[i].Type = e.Type
                         /\ E[i].EntityID = e.EntityID
                         /\ E[i].Version = e.Version
                         /\ E[i].Sequence = e.Sequence

\* C20: a call that has committed a create, update or delete to the live
\* table goes on to hand the appended event to the publisher and does not
\* return before; whatever the publisher answers, the publishing step and
\* the return leave the log and the live table as the commit left them,
\* also when the call returns the publisher's error.
C20_PublishAfterCommit ==
    [][\A p \in Procs :
          /\ (/\ proc[p].pc \in {"cre_commit", "upd_commit", "del_commit"}
              /\ proc'[p].pc # proc[p].pc
              /\ products' # products)
             => /\ Appended(events', proc[p].event)
                /\ events' = events
                /\ proc[p].pc = "cre_commit"
                   => /\ products'[proc[p].key] = proc[p].product
                      /\ proc'[p].pc = "cre_publish"
                /\ proc[p].pc = "upd_commit"
                   => /\ products'[proc[p].key] = proc[p].updated
                      /\ proc'[p].pc = "upd_copy"
                /\ proc[p].pc = "del_commit"
                   => /\ proc[p].key \notin DOMAIN products'
                      /\ proc'[p].pc = "del_publish"
          /\ (proc[p].pc = "upd_copy" /\ proc'[p].pc # "upd_copy")
             => /\ proc'[p].pc = "upd_publish"
                /\ products' = products
                /\ events' = events
          /\ (/\ proc[p].pc \in {"cre_publish", "upd_publish", "del_publish"}
              /\ proc'[p].pc # proc[p].pc)
             => /\ HandedOver(published', proc[p].event)
                /\ Appended(events', proc[p].event)
                /\ products' = products
                /\ events' = events
                /\ proc[p].pc = "upd_publish"
                   => /\ proc'[p].pc = "upd_exit"
                      /\ proc'[p].err \in PublishOutcomes
                /\ proc[p].pc # "upd_publish"
                   => /\ proc'[p].pc = "idle"
                      /\ last'[p].err \in PublishOutcomes
          /\ (proc[p].pc = "upd_exit" /\ proc'[p].pc = "idle")
             => /\ products' = products
                /\ events' = events
                /\ last'[p].err = proc[p].err]_vars

\* An update whose publish failed has returned the publisher's error: the
\* product stands at the new version, the event is in the log and was
\* handed to the publisher.
C20_Witness ==
    \E p \in Procs :
        /\ proc[p].pc = "idle"
        /\ last[p].op = "update"
        /\ last[p].err = ErrPublish
        /\ CommittedVersion(last[p].id) = last[p].ver + 1
        /\ \E i \in EventIndexes(last[p].id) :
              /\ events[i].Type = EventProductUpdated
              /\ events[i].Version = last[p].ver + 1
              /\ HandedOver(published, events[i])

(***************************************************************************)
(* BatchCreateProducts, BatchUpdateProducts, BatchDeleteProducts: one      *)
(* goroutine per item (item i is run by goroutine i), each writing its own *)
(* slot of results; the call returns after wg.Wait().                      *)
(***************************************************************************)
ErrBatchFind   == "Failed to find product"
ErrBatchDelete == "Failed to delete product"

BatchKinds == {0, 1}
Items == 1..BatchSize

\* One batch call at a time, made when the previous one has returned.
BatchIdle ==
    /\ batch.op = "none" \/ batch.returned
    /\ \A p \in Procs : proc[p].pc = "idle"
    /\ batch.count < MaxBatches

\* results := make([]*BatchResult, len(items)): every slot nil.
NewBatch(op, items) ==
    [op |-> op, n |-> Len(items), items |-> items,
     results |-> [i \in 1..Len(items) |-> NoResult],
     returned |-> FALSE, err |-> "", count |-> batch.count + 1]

\* The goroutine of item i has not run yet.
NotStarted(i) ==
    /\ ~batch.returned
    /\ i \in 1..batch.n
    /\ proc[i].pc = "idle"
    /\ last[i].op = "none"
    /\ ~batch.results[i].set

\* The drafts a caller builds for a batch, one per kind.
RECURSIVE NewDrafts(_, _, _)
NewDrafts(M, kinds, title) ==
    IF kinds = <<>> THEN [mem |-> M, addrs |-> <<>>]
    ELSE LET d == NewDraft(M, Head(kinds), title)
             r == NewDrafts(d.mem, Tail(kinds), title)
         IN  [mem |-> r.mem, addrs |-> <<d.addr>> \o r.addrs]

\* The candidates a caller builds for a batch update.
RECURSIVE NewCandidates(_, _)
NewCandidates(M, cands) ==
    IF cands = <<>> THEN [mem |-> M, addrs |-> <<>>]
    ELSE LET d == NewCandidate(M, Head(cands).id, Head(cands).ver, Head(cands).title)
             r == NewCandidates(d.mem, Tail(cands))
         IN  [mem |-> r.mem, addrs |-> <<d.addr>> \o r.addrs]

\* BatchCreateProducts(products), lines 205-207: the results slice is made.
BatchCreateCall(kinds) ==
    /\ BatchIdle
    /\ uuids + Len(kinds) <= MaxBatchProducts
    /\ LET d == NewDrafts(mem, kinds, "t1")
       IN  /\ mem' = d.mem
           /\ batch' = NewBatch("create", d.addrs)
           /\ held' = [held EXCEPT !.own = @ \cup {d.addrs[i] : i \in 1..Len(d.addrs)}]
    /\ last' = [p \in Procs |-> NoCall]
    /\ UNCHANGED <<products, events, locks, sequence, uuids, now, proc, calls,
                   published, mu,
                   pub, lim>>

\* Line 215: the goroutine of item i calls s.CreateProduct(p).
BatchCreateWorker(i) ==
    /\ batch.op = "create"
    /\ NotStarted(i)
    /\ CreateEnterUpTo(i, mem, batch.items[i], MaxBatches * BatchSize,
                       MaxBatchProducts)
    /\ UNCHANGED held

\* BatchUpdateProducts(products), lines 236-238.
BatchUpdateCall(cands) ==
    /\ BatchIdle
    /\ LET d == NewCandidates(mem, cands)
       IN  /\ mem' = d.mem
           /\ batch' = NewBatch("update", d.addrs)
           /\ held' = [held EXCEPT !.own = @ \cup {d.addrs[i] : i \in 1..Len(d.addrs)}]
    /\ last' = [p \in Procs |-> NoCall]
    /\ UNCHANGED <<products, events, locks, sequence, uuids, now, proc, calls,
                   published, mu,
                   pub, lim>>

\* Line 245: the goroutine of item i calls s.UpdateProduct(p).
BatchUpdateWorker(i) ==
    /\ batch.op = "update"
    /\ NotStarted(i)
    /\ UpdateEnterUpTo(i, mem, batch.items[i], MaxBatches * BatchSize)
    /\ UNCHANGED held

\* A result that reports success whatever the call returned.
BatchResultSuccess(M, a, err) ==
    [set |-> TRUE, ID |-> M.structs[a].ID, Success |-> TRUE, Error |-> ""]

\* Lines 218-224 and 248-254: &BatchResult{ID: p.ID, Success: err == nil},
\* and Error = err.Error() when err is not nil.
BatchResultOf(M, a, err) ==
    [set |-> TRUE, ID |-> M.structs[a].ID, Success |-> err = "", Error |-> err]

\* Lines 217-225 and 247-255: results[index] is written once the single
\* operation has returned.
BatchCollect(i) ==
    /\ batch.op \in {"create", "update"}
    /\ ~batch.returned
    /\ i \in 1..batch.n
    /\ ~batch.results[i].set
    /\ proc[i].pc = "idle"
    /\ last[i].op # "none"
    /\ batch' = [batch EXCEPT !.results[i] =
                   BatchResultOf(mem, batch.items[i], last[i].err)]
    /\ UNCHANGED <<mem, products, events, locks, sequence, uuids, now, proc, last,
                   calls, published, held, mu,
                   pub, lim>>

\* wg.Wait(); return results, nil.
BatchReturn ==
    /\ batch.op # "none"
    /\ ~batch.returned
    /\ \A i \in 1..batch.n : batch.results[i].set
    /\ batch' = [batch EXCEPT !.returned = TRUE, !.err = ""]
    /\ UNCHANGED <<mem, products, events, locks, sequence, uuids, now, proc, last,
                   calls, published, held, mu,
                   pub, lim>>

\* BatchDeleteProducts(ids), lines 266-268.
BatchDeleteCall(ids) ==
    /\ BatchIdle
    /\ batch' = NewBatch("delete", ids)
    /\ last' = [p \in Procs |-> NoCall]
    /\ UNCHANGED <<mem, products, events, locks, sequence, uuids, now, proc, calls,
                   published, held, mu,
                   pub, lim>>

\* Lines 273-277: s.repo.GetByID(productID), under r.mu; a failure is the
\* item's result, written by the step of lines 278-280.
BatchDeleteGet(i) ==
    /\ batch.op = "delete"
    /\ NotStarted(i)
    /\ LET id == batch.items[i]
           g  == RepoGetByID(products, id)
       IN  proc' = [proc EXCEPT ![i] =
             IF g.err # ""
             THEN [IdleProc EXCEPT !.pc = "bdel_result", !.key = id,
                                   !.err = ErrBatchFind]
             ELSE [IdleProc EXCEPT !.pc = "bdel_delete", !.key = id,
                                   !.product = g.addr,
                                   !.start = CommittedVersion(id)]]
    /\ UNCHANGED <<mem, products, events, locks, sequence, uuids, now, last, calls,
                   published, held, mu, batch,
                   pub, lim>>

\* Lines 292-301: the event of a batch deletion: a type and the data, no
\* entity id, no version, no sequence, no previous hash.
BatchDeleteEvent(id, product) ==
    [Type |-> EventProductDeleted, EntityID |-> 0, Version |-> 0, Sequence |-> 0,
     Data |-> [ProductID |-> id, Action |-> "deleted", Product |-> product,
               Version |-> 0, PrevHash |-> NoHash, Changes |-> 0]]

\* Lines 286-290: s.repo.Delete(productID), under r.mu.
BatchDeleteRemove(i) ==
    /\ proc[i].pc = "bdel_delete"
    /\ LET r == RepoDelete(products, proc[i].key)
       IN  IF r.err # ""
           THEN /\ proc' = [proc EXCEPT ![i].pc = "bdel_result",
                                        ![i].err = ErrBatchDelete]
                /\ UNCHANGED products
           ELSE /\ products' = r.products
                /\ proc' = [proc EXCEPT ![i].pc = "bdel_publish"]
    /\ UNCHANGED <<mem, events, locks, sequence, uuids, now, last, calls,
                   published, held, mu, batch,
                   pub, lim>>

\* Lines 291-302: the event is built and handed to the publisher, whose
\* answer is dropped.
BatchDeletePublish(i) ==
    /\ proc[i].pc = "bdel_publish"
    /\ published' = published \cup
          {Published(BatchDeleteEvent(proc[i].key, proc[i].product))}
    /\ proc' = [proc EXCEPT ![i].pc = "bdel_result"]
    /\ UNCHANGED <<mem, products, events, locks, sequence, uuids, now, last, calls,
                   held, mu, batch,
                   pub, lim>>

\* Lines 278-280 and 305-307: results[index] = result, under the batch's mu.
BatchDeleteResult(i) ==
    /\ proc[i].pc = "bdel_result"
    /\ batch' = [batch EXCEPT !.results[i] =
                   [set |-> TRUE, ID |-> proc[i].key,
                    Success |-> proc[i].err = "", Error |-> proc[i].err]]
    /\ last' = [last EXCEPT ![i] =
                  [NoCall EXCEPT !.op = "batchdelete", !.id = proc[i].key,
                                 !.start = proc[i].start, !.err = proc[i].err]]
    /\ proc' = [proc EXCEPT ![i] = IdleProc]
    /\ UNCHANGED <<mem, products, events, locks, sequence, uuids, now, calls,
                   published, held, mu,
                   pub, lim>>

\* What a caller may send as one item of a batch update.
Candidates ==
    [id : 1..MaxBatchProducts, ver : 1..MaxVersion, title : Titles]

NextBatch ==
    \/ \E kinds \in [Items -> BatchKinds] : BatchCreateCall(kinds)
    \/ \E i \in Items : BatchCreateWorker(i)
    \/ \E i \in Items : CreateStore(i)
    \/ \E i \in Items : CreateCommit(i)
    \/ \E i \in Items, o \in PublishOutcomes : CreatePublish(i, o)
    \/ \E cands \in [Items -> Candidates] : BatchUpdateCall(cands)
    \/ \E i \in Items : BatchUpdateWorker(i)
    \/ \E i \in Items : UpdateGet(i)
    \/ \E i \in Items : UpdateMake(i)
    \/ \E i \in Items : UpdateStore(i)
    \/ \E i \in Items : UpdateCommit(i)
    \/ \E i \in Items : UpdateCopyBack(i)
    \/ \E i \in Items, o \in PublishOutcomes : UpdatePublish(i, o)
    \/ \E i \in Items : UpdateExit(i)
    \/ \E i \in Items : BatchCollect(i)
    \/ \E ids \in [Items -> 1..MaxBatchProducts] : BatchDeleteCall(ids)
    \/ \E i \in Items : BatchDeleteGet(i)
    \/ \E i \in Items : BatchDeleteRemove(i)
    \/ \E i \in Items : BatchDeletePublish(i)
    \/ \E i \in Items : BatchDeleteResult(i)
    \/ BatchReturn

SpecBatch == Init /\ [][NextBatch]_vars

\* The id of input item i of the batch under way.
ItemID(i) ==
    IF batch.op = "delete" THEN batch.items[i]
    ELSE mem.structs[batch.items[i]].ID

\* The effect of item i, which succeeded, is in the live table and the log.
EffectInPlace(i) ==
    LET id == ItemID(i)
    IN  CASE batch.op = "create" ->
               /\ id \in DOMAIN products
               /\ products[id] = batch.items[i]
               /\ \E k \in 1..Len(events) :
                     /\ events[k].EntityID = id
                     /\ events[k].Type = EventProductCreated
          [] batch.op = "update" ->
               /\ id \in DOMAIN products
               /\ CommittedVersion(id) > last[i].ver
               /\ \E k \in 1..Len(events) :
                     /\ events[k].EntityID = id
                     /\ events[k].Type = EventProductUpdated
                     /\ events[k].Version = last[i].ver + 1
          [] OTHER -> id \notin DOMAIN products

\* C13: a batch call that has returned gave no error of its own and one
\* non-nil result per input item, result i carrying the id of item i, a
\* success flag that tells how item i's operation ended, and an error text
\* exactly when it failed; what the successful items did is in place,
\* whatever the other items did.
C13_BatchResults ==
    batch.returned =>
        /\ batch.err = ""
        /\ Len(batch.results) = Len(batch.items)
        /\ \A i \in 1..Len(batch.items) :
              LET r == batch.results[i]
              IN  /\ r.set
                  /\ r.ID = ItemID(i)
                  /\ r.Success <=> (r.Error = "")
                  /\ r.Success <=> (last[i].op # "none" /\ last[i].err = "")
                  /\ r.Error = last[i].err
                  /\ r.Success => EffectInPlace(i)

\* A batch update of two items has returned: the first item failed, the
\* second succeeded.
C13_Witness ==
    /\ batch.returned
    /\ batch.op = "update"
    /\ Len(batch.results) = 2
    /\ ~batch.results[1].Success
    /\ batch.results[1].Error = ErrVersionConflict
    /\ batch.results[2].Success
    /\ EffectInPlace(2)

\* models.ValidateProduct: TRUE when validate.Struct finds no error.  The
\* tags of product.go lines 13-46: ID, SKU and BaseTitle required; Prices
\* required (a required slice is one that is not nil) and dived into, each
\* Currency required with len=3 and each Amount required (not 0) and gte=0;
\* Variants dived into, each ID, SKU and Attributes (not nil) required;
\* Metadata required and dived into, each Market and Title required.
\* Variant.Stock carries no tag, so the rules of Stock are never applied.
ValidateProduct(M, a) ==
    LET s == M.structs[a]
    IN  /\ s.ID # 0
        /\ s.SKU # ""
        /\ s.BaseTitle # ""
        /\ s.Prices # 0
        /\ \A i \in 1..Len(M.arrs[s.Prices]) :
              /\ Len(M.arrs[s.Prices][i].Currency) = 3
              /\ M.arrs[s.Prices][i].Amount # 0
              /\ M.arrs[s.Prices][i].Amount >= 0
        /\ s.Variants # 0 =>
              \A i \in 1..Len(M.varrs[s.Variants]) :
                 /\ M.varrs[s.Variants][i].ID # 0
                 /\ M.varrs[s.Variants][i].SKU # ""
                 /\ M.varrs[s.Variants][i].Attributes # 0
        /\ s.Metadata # 0
        /\ \A i \in 1..Len(M.arrs[s.Metadata]) :
              /\ M.arrs[s.Metadata][i].Market # ""
              /\ M.arrs[s.Metadata][i].Title # ""

\* Item i of the batch is the product of an event of the log or a value of
\* the live table.
ItemCommitted(i) ==
    \/ \E id \in DOMAIN products : products[id] = batch.items[i]
    \/ \E k \in 1..Len(events) : events[k].EntityID = ItemID(i)

\* C14: a batch create that has returned gave one result per item; an item
\* that does not pass ValidateProduct reports failure with an error text
\* and is neither in the live table nor in the log; every other item
\* reports success (unless the publisher failed on it).
C14_InvalidItemRejected ==
    (batch.returned /\ batch.op = "create") =>
        /\ Len(batch.results) = Len(batch.items)
        /\ \A k \in 1..Len(batch.items) :
              IF ValidateProduct(mem, batch.items[k])
              THEN last[k].err # ErrPublish => batch.results[k].Success
              ELSE /\ ~batch.results[k].Success
                   /\ batch.results[k].Error # ""
                   /\ ~ItemCommitted(k)

\* C16: the goroutine of a batch deletion that removes an existing id
\* leaves what DeleteProduct leaves: the id is gone from the live table and
\* the log holds exactly one deletion event for it, with the entity id, the
\* version after the committed one and the committed hash as prev_hash.
C16_BatchDeleteAsDelete ==
    [][\A i \in Items :
          (proc[i].pc = "bdel_delete" /\ proc'[i].pc = "bdel_publish")
          => LET id == proc[i].key
             IN  /\ id \notin DOMAIN products'
                 /\ \E k \in 1..Len(events') :
                       /\ DeletionIndexes(events', id) = {k}
                       /\ events'[k].Version = CommittedVersion(id) + 1
                       /\ events'[k].Data.PrevHash =
                             mem.structs[products[id]].LastHash]_vars

\* C19: the events produced by create, update and delete, single or batch
\* (those of the log and those handed to the publisher), carry sequence
\* numbers the counter has handed out, no two events the same one.
C19_SequenceTotalOrder ==
    /\ \A i, j \in 1..Len(events) :
          i # j => events[i].Sequence # events[j].Sequence
    /\ \A i \in 1..Len(events) : events[i].Sequence \in 1..sequence
    /\ \A e \in published : e.Sequence \in 1..sequence
    /\ \A e, f \in published : e # f => e.Sequence # f.Sequence

(***************************************************************************)
(* The lock manager: expiry, cancellation, release, refresh, the sweep     *)
(* (SpecLock).                                                             *)
(***************************************************************************)
\* The entry of k is still in the table and its expiry lies before t.
Lapsed(L, k, t) == k \in DOMAIN L /\ L[k].expiresAt < t

\* C26: an AcquireLock(k, ttl) that reads the clock at a time later than
\* the expiry of the lock standing on k is granted, whether the sweep has
\* removed that lock or left it in the table: the check lets it through
\* and the call installs its own lock and returns true.
C26_LapsedLockDoesNotBlock ==
    [][\A p \in Procs :
          /\ (/\ proc[p].pc = "acq_check" /\ proc'[p].pc # "acq_check"
              /\ \/ Lapsed(locks, proc[p].key, proc[p].t)
                 \/ proc[p].key \notin DOMAIN locks)
             => proc'[p].pc = "acq_install"
          /\ (proc[p].pc = "acq_install" /\ proc'[p].pc # "acq_install")
             => /\ last'[p].op = "acquire"
                /\ last'[p].acquired
                /\ last'[p].err = ""
                /\ locks'[proc[p].key].expiresAt = proc[p].t + proc[p].ttl]_vars

\* A call has passed the check while the lapsed lock of an earlier holder
\* was still in the table (no sweep, release or refresh in between).
C26_Witness ==
    \E p \in Procs :
        /\ proc[p].pc = "acq_install"
        /\ Lapsed(locks, proc[p].key, proc[p].t)
        /\ \E q \in Procs \ {p} :
              /\ last[q].op = "acquire" /\ last[q].acquired
              /\ last[q].id = proc[p].key
              /\ locks[proc[p].key].expiresAt = last[q].at + last[q].ttl

\* C27: AcquireLock called with a context that is already cancelled returns
\* false and the context's error at once, and the lock table is as it was,
\* whatever stands on the key.
C27_CancelledAcquire ==
    [][\A p \in Procs, k \in LockKeys, ttl \in TTLs :
          AcquireCall(p, k, ttl, TRUE)
          => /\ proc'[p].pc = "idle"
             /\ last'[p].op = "acquire"
             /\ last'[p].id = k
             /\ ~last'[p].acquired
             /\ last'[p].err = ErrCanceled
             /\ locks' = locks]_vars

\* Two cancelled calls have returned: one on a key that holds an unexpired
\* lock, one on a key that has none.
C27_Witness ==
    \E p, q \in Procs :
        /\ last[p].op = "acquire" /\ last[p].err = ErrCanceled
        /\ last[p].id \in DOMAIN locks
        /\ now < locks[last[p].id].expiresAt
        /\ last[q].op = "acquire" /\ last[q].err = ErrCanceled
        /\ last[q].id \notin DOMAIN locks

\* C28: ReleaseLock(k) returns no error and leaves k without a lock and
\* every other key as it was, on a locked key and on one that has no lock
\* (where it changes nothing, so a second release is the same as one); an
\* AcquireLock that then finds no lock on k is granted.
C28_ReleaseIdempotent ==
    [][/\ \A p \in Procs, k \in LockKeys :
             ReleaseCall(p, k)
             => /\ last'[p].op = "release"
                /\ last'[p].err = ""
                /\ DOMAIN locks' = DOMAIN locks \ {k}
                /\ \A x \in DOMAIN locks' : locks'[x] = locks[x]
                /\ k \notin DOMAIN locks => locks' = locks
       /\ \A p \in Procs :
             (/\ proc[p].pc = "acq_check" /\ proc'[p].pc # "acq_check"
              /\ proc[p].key \notin DOMAIN locks)
             => /\ proc'[p].pc = "acq_install"
                /\ locks' = locks]_vars

\* Two calls were made: a lock was granted, and while it had not expired
\* the other goroutine released it; the key has no lock now.
C28_Witness ==
    \E p, q \in Procs :
        /\ calls = 2
        /\ last[p].op = "acquire" /\ last[p].acquired
        /\ now < last[p].at + last[p].ttl
        /\ last[q].op = "release" /\ last[q].id = last[p].id /\ last[q].err = ""
        /\ last[p].id \notin DOMAIN locks

\* C29: RefreshLock(k, ttl) returns no error; on a key with a lock it sets
\* that lock's expiry to now + ttl and changes nothing else, on a key
\* without one it changes nothing; a key that AcquireLock would treat as
\* free before the refresh is one it would treat as free after it.
C29_RefreshLock ==
    [][\A p \in Procs, k \in LockKeys, ttl \in TTLs :
          RefreshCall(p, k, ttl)
          => /\ last'[p].op = "refresh"
             /\ last'[p].err = ""
             /\ k \in DOMAIN locks
                => locks' = [locks EXCEPT ![k].expiresAt = now + ttl]
             /\ k \notin DOMAIN locks => locks' = locks
             /\ Unlocked(locks, k, now) => Unlocked(locks', k, now)]_vars

\* The lock manager with its scheduling: the ticker of cleanupExpiredLocks
\* keeps firing, and a goroutine that holds m.mu runs on to its Unlock.
SpecLockFair ==
    /\ SpecLock
    /\ WF_vars(LockSweep)
    /\ \A p \in Procs : WF_vars(AcquireCheck(p)) /\ WF_vars(AcquireInstall(p))

\* C30: the sweep removes only locks whose expiry has passed and leaves the
\* others as they are; and a lock whose expiry has passed does not stay in
\* the table: it is eventually gone (or replaced), also when no caller
\* ever releases it.
C30_SweepRemovesExpired ==
    /\ [][LockSweep =>
            /\ \A k \in DOMAIN locks :
                  k \notin DOMAIN locks' => Lapsed(locks, k, now)
            /\ \A k \in DOMAIN locks' :
                  k \in DOMAIN locks /\ locks'[k] = locks[k]]_vars
    /\ \A k \in LockKeys : Lapsed(locks, k, now) ~> ~Lapsed(locks, k, now)

\* The one call made was an AcquireLock that was granted; its lock expired
\* and is gone from the table, though nobody released it.
C30_Witness ==
    \E p \in Procs :
        /\ calls = 1
        /\ last[p].op = "acquire" /\ last[p].acquired
        /\ now > last[p].at + last[p].ttl
        /\ last[p].id \notin DOMAIN locks

(***************************************************************************)
(* The event log as a whole (SpecStore).                                   *)
(***************************************************************************)
\* The stored events by value: every field, the snapshot and the changes.
Stored(M, E) ==
    [i \in 1..Len(E) |->
        [Type     |-> E[i].Type,
         EntityID |-> E[i].EntityID,
         Version  |-> E[i].Version,
         Sequence |-> E[i].Sequence,
         Action   |-> E[i].Data.Action,
         PrevHash |-> E[i].Data.PrevHash,
         Product  |-> View(M, E[i].Data.Product),
         Changes  |-> IF E[i].Data.Changes = 0 THEN <<>>
                      ELSE M.chgs[E[i].Data.Changes]]]

\* C21: the log only grows at its end: whatever a step does (a store, a
\* query, a write of a caller into a value it handed to the log or got back
\* from it), every event stored before is still there, at its place, with
\* every field, its snapshot and its changes as they were.
C21_LogAppendOnly ==
    [][/\ Len(events') >= Len(events)
       /\ \A i \in 1..Len(events) :
             Stored(mem', events')[i] = Stored(mem, events)[i]]_vars

\* C22: for every from_version, GetEvents(1, from_version) returns the
\* stored events of entity 1 with version >= from_version, each once and
\* no other, in ascending order of version whatever the order they were
\* stored in, and nothing when from_version is above every stored version.
C22_GetEventsAscending ==
    \A v \in 1..(MaxVersion + 1) :
        LET g    == GetEvents(mem, events, 1, v).events
            want == {i \in 1..Len(events) :
                        events[i].EntityID = 1 /\ events[i].Version >= v}
        IN  /\ Len(g) = Cardinality(want)
            /\ \A i \in want :
                  \E j \in 1..Len(g) :
                      [g[j] EXCEPT !.Data.Product = events[i].Data.Product] = events[i]
            /\ \A i, j \in 1..Len(g) : i < j => g[i].Version <= g[j].Version
            /\ want = {} => g = <<>>

(***************************************************************************)
(* ReplayEvents on whatever the log holds (SpecStore).                     *)
(***************************************************************************)
\* The orders sort.Slice may leave the events in: ascending by version,
\* events of equal version either way round.
SortedOrders(evs) ==
    LET n == Len(evs)
        perms == {f \in [1..n -> 1..n] : \A i, j \in 1..n : i # j => f[i] # f[j]}
    IN  {s \in {[i \in 1..n |-> evs[f[i]]] : f \in perms} :
            \A i, j \in 1..n : i < j => ~(s[j].Version < s[i].Version)}

\* The chain rules, on events in version order: which of them is broken.
FirstRuleBroken(evs) ==
    /\ evs # <<>>
    /\ \/ evs[1].Type = EventProductCreated /\ evs[1].Data.PrevHash # NoHash
       \/ evs[1].Type # EventProductCreated /\ evs[1].Data.PrevHash = NoHash

VersionRuleBroken(evs) ==
    \E i \in 2..Len(evs) : evs[i].Version # evs[i - 1].Version + 1

HashRuleBroken(M, evs) ==
    \E i \in 2..Len(evs) :
        evs[i].Data.PrevHash # M.structs[evs[i - 1].Data.Product].LastHash

ChainBroken(M, evs) ==
    FirstRuleBroken(evs) \/ VersionRuleBroken(evs) \/ HashRuleBroken(M, evs)

\* C23: whatever the log holds and whichever order the sort leaves events
\* of equal version in, a replay whose version-ordered events break a chain
\* rule returns an error and no events; one whose events break none returns
\* all of them, in that order.
C23_ReplayRejectsBrokenChain ==
    \A v \in 1..MaxVersion :
        LET g == GetEvents(mem, events, 1, v)
        IN  /\ SortByVersion(g.events) \in SortedOrders(g.events)
            /\ \A s \in SortedOrders(g.events) :
                  LET r == ReplayVerified(g.mem, s)
                  IN  IF ChainBroken(g.mem, s)
                      THEN r.err # "" /\ r.events = <<>>
                      ELSE r.err = "" /\ r.events = s
            /\ LET r == ReplayEvents(mem, events, 1, v)
               IN  IF ChainBroken(r.mem, SortByVersion(g.events))
                   THEN r.err # "" /\ r.events = <<>>
                   ELSE r.err = "" /\ Len(r.events) = Len(g.events)

\* The log holds versions 1 and 2 whose first event passes the first rule
\* and whose second carries a prev_hash that is not the first one's hash:
\* the replay from version 1 fails on the hash rule.
C23_Witness ==
    LET g == GetEvents(mem, events, 1, 1)
        s == SortByVersion(g.events)
    IN  /\ Len(s) = 2
        /\ ~FirstRuleBroken(s)
        /\ ~VersionRuleBroken(s)
        /\ HashRuleBroken(g.mem, s)
        /\ ReplayEvents(mem, events, 1, 1).err = "event chain integrity violated"
        /\ ReplayEvents(mem, events, 1, 1).events = <<>>

(***************************************************************************)
(* Readers during an update (SpecSeq).                                     *)
(***************************************************************************)
\* An UpdateProduct of id is between its call and its return.
UpdateInProgress(p, id) ==
    /\ proc[p].pc \in {"upd_get", "upd_build", "upd_store", "upd_commit", "upd_copy",
                     "upd_publish", "upd_exit"}
    /\ proc[p].key = id

\* The states of id that were committed or are being committed: the
\* snapshots the log holds for it.
CommittedStates(id) ==
    {View(mem, events[k].Data.Product) :
        k \in {i \in 1..Len(events) : events[i].EntityID = id}}

\* C24: while an UpdateProduct of an id is in progress, what a reader gets
\* for that id from the live table, or holds from an earlier GetProduct,
\* is one whole committed state of the id: the one before the update or
\* the one the update commits.
C24_ReaderSeesWholeState ==
    \A p \in Procs, id \in DOMAIN products :
        UpdateInProgress(p, id) =>
            /\ View(mem, products[id]) \in CommittedStates(id)
            /\ \A a \in held.got :
                  mem.structs[a].ID = id => View(mem, a) \in CommittedStates(id)

(***************************************************************************)
(* Unknown ids (Spec).                                                     *)
(***************************************************************************)
\* C25: on an id that is not in the live table (its creation not committed,
\* or deleted), GetProduct fails with not-found; DeleteProduct returns
\* not-found at once; UpdateProduct finds no current product and returns
\* the not-found error wrapped as "failed to get current product"; and no
\* step of these calls changes the live table, the log or an aggregate.
C25_NotFound ==
    /\ [](\A id \in (1..uuids) \ DOMAIN products :
             RepoGetByID(products, id).err = ErrProductNotFound)
    /\ [][\A p \in Procs :
             /\ \A id \in (1..uuids) \ DOMAIN products :
                   DeleteCall(p, id)
                   => /\ proc'[p].pc = "idle"
                      /\ last'[p].op = "delete"
                      /\ last'[p].err = ErrProductNotFound
                      /\ StateKept
             /\ (/\ proc[p].pc = "idle" /\ proc'[p].pc = "upd_get"
                 /\ proc'[p].key \notin DOMAIN products)
                => StateKept
             /\ (/\ proc[p].pc = "upd_get" /\ proc'[p].pc # "upd_get"
                 /\ proc[p].key \notin DOMAIN products)
                => /\ proc'[p].pc = "upd_exit"
                   /\ proc'[p].err = ErrGetCurrent
                   /\ StateKept
             /\ (/\ proc[p].pc = "upd_exit" /\ proc'[p].pc = "idle"
                 /\ proc[p].err = ErrGetCurrent)
                => /\ last'[p].op = "update"
                   /\ last'[p].err = ErrGetCurrent
                   /\ StateKept]_vars

\* A product was created and deleted, and an UpdateProduct of its id has
\* then returned the not-found error: the id is not in the live table and
\* its log ends with the deletion event.
C25_Witness ==
    \E p \in Procs :
        /\ last[p].op = "update"
        /\ last[p].err = ErrGetCurrent
        /\ last[p].id \notin DOMAIN products
        /\ DeletionIndexes(events, last[p].id) # {}
        /\ events[Len(events)].Type = EventProductDeleted

(***************************************************************************)
(* The log against the live table (SpecSeq for C35, Spec for the others).  *)
(***************************************************************************)
\* C35: every aggregate of the live table, at its version v, has in the
\* log an event of its id with version v whose snapshot carries the
\* aggregate's last_hash: the log is never behind the table.
C35_LogNotBehindTable ==
    \A id \in DOMAIN products :
        \E k \in 1..Len(events) :
            /\ events[k].EntityID = id
            /\ events[k].Version = mem.structs[products[id]].Version
            /\ mem.structs[events[k].Data.Product].LastHash =
                  mem.structs[products[id]].LastHash

\* C36: a deletion event is the last event of its entity and the only
\* deletion event of it: no event of the id is stored after it.
C36_TombstoneIsLast ==
    \A id \in 1..uuids :
        /\ Cardinality(DeletionIndexes(events, id)) <= 1
        /\ \A k \in DeletionIndexes(events, id) :
              \A j \in (k + 1)..Len(events) : events[j].EntityID # id

\* C37: an UpdateProduct or DeleteProduct that returns an error other than
\* a publisher failure has left no event of its own in the log.
C37_FailedCallStoresNothing ==
    [][\A p \in Procs :
          /\ (/\ proc[p].pc = "del_commit" /\ proc'[p].pc = "idle"
              /\ last'[p].err \notin {"", ErrPublish})
             => ~Appended(events', proc[p].event)
          /\ (/\ proc[p].pc = "upd_exit" /\ proc'[p].pc = "idle"
              /\ last'[p].err \notin {"", ErrPublish})
             => ~Appended(events', proc[p].event)]_vars


(***************************************************************************)
(* Writers racing on one product: a create, then updates and deletions     *)
(* from two goroutines, with the clock standing still, while other         *)
(* goroutines that share the product values passed in call UpdateVersion   *)
(* on them at any moment.  None of these accesses is synchronised, so      *)
(* every load and every store of a field of a shared Product is a step of  *)
(* its own here, and so is every s.sequence.Add(1):                        *)
(*   UpdateVersion    the load and the store of p.Version++ (line 91), the *)
(*                    loads of CalculateHash (lines 73-79, then Version at *)
(*                    line 80) and the store of LastHash (line 92);        *)
(*   CreateProduct    lines 45, 50, 51 (as in UpdateVersion), 58, 59, 64;  *)
(*   UpdateProduct    the two loads of line 121, the clone of line 126,    *)
(*                    lines 137 and 143, the copy of line 160;             *)
(*   DeleteProduct    lines 178, 179, 184 and 185;                         *)
(*   StoreEvent       lines 97 and 114 of the Clone it makes of a shared   *)
(*                    product (the update event points at a clone of the   *)
(*                    call's own).                                         *)
(* Go leaves open whether an operand that is a plain load is evaluated     *)
(* before or after a function call in the same expression, so             *)
(* getNextSequence() comes before, between or after the loads of shared    *)
(* fields that the same event literal makes (in UpdateProduct: the load of *)
(* line 143; the calls of lines 141 and 145 follow it in lexical order).   *)
(* UpdateVersion takes no lock either: the goroutines that call it do so   *)
(* on any shared value at any moment, on the same value too, each with its *)
(* own loaded Version and digest.                                          *)
(***************************************************************************)
MaxRaceCalls == 4

\* The UpdateVersion call u has moved on to be v.
UpdateVersionStep(u, v) ==
    /\ held' = [held EXCEPT !.uv = (@ (-) SetToBag({u})) (+) SetToBag({v})]
    /\ UNCHANGED <<products, events, locks, sequence, uuids, now, proc, last,
                   calls, published>>
    /\ UNCHANGED others

\* Line 91 of UpdateVersion on a shared value, p.Version++: the load.
\* held.uv is the bag of the calls under way, one for each goroutine that
\* is inside UpdateVersion: calls at the same point with the same locals
\* are interchangeable.
UpdateVersionLoad(a) ==
    /\ a \in held.own \cup held.got
    /\ calls < MaxRaceCalls
    /\ calls' = calls + 1
    /\ held' = [held EXCEPT
                  !.uv = @ (+) SetToBag({[addr |-> a, pc |-> "incr",
                                               ver |-> mem.structs[a].Version,
                                               read |-> <<>>, hash |-> NoHash]})]
    /\ UNCHANGED <<mem, products, events, locks, sequence, uuids, now, proc, last,
                   published>>
    /\ UNCHANGED others

\* Line 91, p.Version++: the store of the value loaded, plus one.
UpdateVersionIncr(u) ==
    /\ BagIn(u, held.uv)
    /\ u.pc = "incr"
    /\ mem' = [mem EXCEPT !.structs[u.addr].Version = u.ver + 1]
    /\ UpdateVersionStep(u, [u EXCEPT !.pc = "fields"])

\* Line 92 of UpdateVersion, p.CalculateHash(): the loads of lines 73-79.
UpdateVersionFields(u) ==
    /\ BagIn(u, held.uv)
    /\ u.pc = "fields"
    /\ UNCHANGED mem
    /\ UpdateVersionStep(u, [u EXCEPT !.pc = "hash", !.read = <<mem.structs[u.addr]>>])

\* Line 92, p.CalculateHash(): the load of p.Version (line 80) and the
\* digest of what was loaded (lines 84-86).
UpdateVersionHash(u) ==
    /\ BagIn(u, held.uv)
    /\ u.pc = "hash"
    /\ UNCHANGED mem
    /\ UpdateVersionStep(u,
          [u EXCEPT !.pc = "store", !.read = <<>>,
                    !.hash = CalculateHashOf(mem,
                               [u.read[1] EXCEPT !.Version =
                                                   mem.structs[u.addr].Version])])

\* Line 92 of UpdateVersion, the store to p.LastHash.
UpdateVersionStore(u) ==
    /\ BagIn(u, held.uv)
    /\ u.pc = "store"
    /\ mem' = [mem EXCEPT !.structs[u.addr].LastHash = u.hash]
    /\ held' = [held EXCEPT !.uv = @ (-) SetToBag({u})]
    /\ UNCHANGED <<products, events, locks, sequence, uuids, now, proc, last,
                   calls, published>>
    /\ UNCHANGED others

\* A step of a service call that writes the heap and the goroutine's locals.
RaceStep(p, M, next) ==
    /\ mem' = M
    /\ proc' = [proc EXCEPT ![p] = next]
    /\ UNCHANGED <<products, events, locks, sequence, uuids, now, last, calls,
                   published, held>>
    /\ UNCHANGED others

\* s.getNextSequence() in the expression that builds the event, at any of
\* the positions `during` among the loads the expression makes.  The
\* counter starts at 0, so a Sequence of 0 is one not drawn yet.
RaceSequence(p, during) ==
    /\ proc[p].pc \in during
    /\ proc[p].event.Sequence = 0
    /\ proc' = [proc EXCEPT ![p].event.Sequence = getNextSequence(sequence)]
    /\ sequence' = getNextSequence(sequence)
    /\ UNCHANGED <<mem, products, events, locks, uuids, now, last, calls,
                   published, held>>
    /\ UNCHANGED others

\* CreateProduct is called with a draft that other goroutines hold as well.
RaceCreate(p) ==
    LET d == NewDraft(mem, 1, "t1")
    IN  /\ proc[p].pc = "idle"
        /\ calls < MaxRaceCalls
        /\ uuids < MaxProducts
        /\ mem' = d.mem
        /\ proc' = [proc EXCEPT ![p] =
                      [IdleProc EXCEPT !.pc = "cre_id", !.product = d.addr,
                                       !.key = uuids + 1]]
        /\ uuids' = uuids + 1
        /\ calls' = calls + 1
        /\ held' = [held EXCEPT !.own = @ \cup {d.addr}]
        /\ UNCHANGED <<products, events, locks, sequence, now, last, published>>
        /\ UNCHANGED others

\* Lines 45-47: product.ID = "prod_" + uuid.New().String().
RaceCreateID(p) ==
    /\ proc[p].pc = "cre_id"
    /\ RaceStep(p, [mem EXCEPT !.structs[proc[p].product].ID = proc[p].key],
                [proc[p] EXCEPT !.pc = "cre_version"])

\* Line 50: product.Version = 1.
RaceCreateVersion(p) ==
    /\ proc[p].pc = "cre_version"
    /\ RaceStep(p, [mem EXCEPT !.structs[proc[p].product].Version = 1],
                [proc[p] EXCEPT !.pc = "cre_fields"])

\* Line 51, product.CalculateHash(): the loads of lines 73-79.
RaceCreateFields(p) ==
    /\ proc[p].pc = "cre_fields"
    /\ RaceStep(p, mem, [proc[p] EXCEPT !.pc = "cre_hash",
                                        !.read = <<mem.structs[proc[p].product]>>])

\* Line 51, product.CalculateHash(): the load of product.Version (line 80)
\* and the digest of what was loaded (lines 84-86).
RaceCreateHash(p) ==
    /\ proc[p].pc = "cre_hash"
    /\ RaceStep(p, mem,
          [proc[p] EXCEPT
             !.pc = "cre_lasthash", !.read = <<>>,
             !.hash = CalculateHashOf(mem,
                        [proc[p].read[1] EXCEPT !.Version =
                            mem.structs[proc[p].product].Version])])

\* Line 51, the store to product.LastHash.
RaceCreateLastHash(p) ==
    /\ proc[p].pc = "cre_lasthash"
    /\ RaceStep(p, [mem EXCEPT !.structs[proc[p].product].LastHash = proc[p].hash],
                [proc[p] EXCEPT !.pc = "cre_event", !.hash = NoHash])

\* Lines 54-58: the Event fields other than Sequence; Version is
\* product.Version as line 58 loads it.
RaceCreateEvent(p) ==
    /\ proc[p].pc = "cre_event"
    /\ RaceStep(p, mem,
          [proc[p] EXCEPT
             !.pc = "cre_data",
             !.event.Type = EventProductCreated,
             !.event.EntityID = mem.structs[proc[p].product].ID,
             !.event.Version = mem.structs[proc[p].product].Version])

\* Line 59: Sequence: s.getNextSequence().
RaceCreateSequence(p) ==
    RaceSequence(p, {"cre_event", "cre_data", "cre_store"})

\* Lines 60-68: the ProductEvent; Version is product.Version as line 64
\* loads it.
RaceCreateData(p) ==
    /\ proc[p].pc = "cre_data"
    /\ RaceStep(p, mem,
          [proc[p] EXCEPT
             !.pc = "cre_store",
             !.event.Data =
                 [ProductID |-> mem.structs[proc[p].product].ID,
                  Action |-> "created", Product |-> proc[p].product,
                  Version |-> mem.structs[proc[p].product].Version,
                  PrevHash |-> NoHash, Changes |-> 0]])

RaceUpdate(p, id, ver) ==
    LET d == NewCandidate(mem, id, ver, "t2")
    IN  /\ UpdateEnterUpTo(p, d.mem, d.addr, MaxRaceCalls)
        /\ held' = [held EXCEPT !.own = @ \cup {d.addr}]

\* Lines 112-119: s.repo.GetByID(product.ID).
RaceUpdateGet(p) ==
    /\ proc[p].pc = "upd_get"
    /\ LET g == RepoGetByID(products, proc[p].key)
       IN  RaceStep(p, mem,
             IF g.err # ""
             THEN [proc[p] EXCEPT !.pc = "upd_exit", !.err = ErrGetCurrent]
             ELSE [proc[p] EXCEPT !.pc = "upd_version", !.current = g.addr])

\* Line 121, left operand: the load of product.Version.
RaceUpdateVersion(p) ==
    /\ proc[p].pc = "upd_version"
    /\ RaceStep(p, mem, [proc[p] EXCEPT !.pc = "upd_check",
                                        !.ver = mem.structs[proc[p].product].Version])

\* Lines 121-123, right operand and comparison: the load of current.Version.
RaceUpdateCheck(p) ==
    /\ proc[p].pc = "upd_check"
    /\ RaceStep(p, mem,
          IF proc[p].ver # mem.structs[proc[p].current].Version
          THEN [proc[p] EXCEPT !.pc = "upd_exit", !.err = ErrVersionConflict]
          ELSE [proc[p] EXCEPT !.pc = "upd_build"])

\* Lines 126-129: the clone of the candidate (the struct copy of line 97
\* loads its Version; the LastHash that line 114 loads is overwritten at
\* line 129), its version and hash bumped.
RaceUpdateClone(p) ==
    /\ proc[p].pc = "upd_build"
    /\ LET c == UpdateClone(mem, proc[p].product)
       IN  RaceStep(p, c.mem, [proc[p] EXCEPT !.pc = "upd_event",
                                              !.updated = c.updated])

\* Line 137: Sequence: s.getNextSequence().
RaceUpdateSequence(p) ==
    RaceSequence(p, {"upd_event", "upd_make"})

\* Line 143: the load of current.LastHash.
RaceUpdatePrev(p) ==
    /\ proc[p].pc = "upd_event"
    /\ RaceStep(p, mem,
          [proc[p] EXCEPT
             !.pc = "upd_make",
             !.hash = mem.structs[proc[p].current].LastHash])

\* Lines 132-147: the rest of the event, once the sequence number is drawn
\* and the PrevHash loaded.
RaceUpdateEvent(p) ==
    /\ proc[p].pc = "upd_make"
    /\ proc[p].event.Sequence # 0
    /\ LET b == UpdateEvent(mem, proc[p].updated, proc[p].current,
                            proc[p].event.Sequence, proc[p].hash)
       IN  RaceStep(p, b.mem, [proc[p] EXCEPT !.pc = "upd_store", !.event = b.event,
                                              !.hash = NoHash])

\* Line 160, *product = *updatedProduct, a copy of the struct field by
\* field in an order the build chooses: first everything but the field
\* named last.
RaceUpdateCopyBack(p, lastField) ==
    /\ proc[p].pc = "upd_copy"
    /\ LET from == mem.structs[proc[p].updated]
           to   == mem.structs[proc[p].product]
       IN  RaceStep(p,
             [mem EXCEPT !.structs[proc[p].product] =
                IF lastField = "Version"
                THEN [from EXCEPT !.Version = to.Version]
                ELSE [from EXCEPT !.LastHash = to.LastHash]],
             [proc[p] EXCEPT !.pc = IF lastField = "Version"
                                    THEN "upd_copy_version"
                                    ELSE "upd_copy_lasthash"])

\* Line 160, the field written last.
RaceUpdateCopyRest(p) ==
    /\ proc[p].pc \in {"upd_copy_version", "upd_copy_lasthash"}
    /\ RaceStep(p,
          IF proc[p].pc = "upd_copy_version"
          THEN [mem EXCEPT !.structs[proc[p].product].Version =
                              mem.structs[proc[p].updated].Version]
          ELSE [mem EXCEPT !.structs[proc[p].product].LastHash =
                              mem.structs[proc[p].updated].LastHash],
          [proc[p] EXCEPT !.pc = "upd_publish"])

\* Lines 174-178: the Event fields other than Sequence; Version is
\* product.Version + 1 as line 178 loads it.
RaceDeleteEvent(p) ==
    /\ proc[p].pc = "del_build"
    /\ RaceStep(p, mem,
          [proc[p] EXCEPT
             !.pc = "del_data",
             !.event.Type = EventProductDeleted,
             !.event.EntityID = proc[p].key,
             !.event.Version = mem.structs[proc[p].product].Version + 1])

\* Line 179: Sequence: s.getNextSequence().
RaceDeleteSequence(p) ==
    RaceSequence(p, {"del_build", "del_data", "del_prev", "del_store"})

\* Lines 180-184: the ProductEvent up to its Version, product.Version + 1
\* as line 184 loads it.
RaceDeleteData(p) ==
    /\ proc[p].pc = "del_data"
    /\ RaceStep(p, mem,
          [proc[p] EXCEPT
             !.pc = "del_prev",
             !.event.Data =
                 [ProductID |-> proc[p].key, Action |-> "deleted",
                  Product |-> proc[p].product,
                  Version |-> mem.structs[proc[p].product].Version + 1,
                  PrevHash |-> NoHash, Changes |-> 0]])

\* Line 185: PrevHash is product.LastHash as it is loaded now.
RaceDeletePrev(p) ==
    /\ proc[p].pc = "del_prev"
    /\ RaceStep(p, mem,
          [proc[p] EXCEPT
             !.pc = "del_store",
             !.event.Data.PrevHash = mem.structs[proc[p].product].LastHash])

\* MemoryEventStore.mu is free: no goroutine is inside StoreEvent.
StoreMutexFree == \A q \in Procs : proc[q].pc \notin {"cre_snap", "del_snap"}

\* Line 114 of Clone: clone.LastHash = p.LastHash, loaded again after the
\* struct copy of line 97.
CloneLastHash(M, c, a) == [M EXCEPT !.structs[c].LastHash = M.structs[a].LastHash]

\* StoreEvent of a creation or deletion event, whose Product is shared, up
\* to lines 97-109 of the Clone it makes (event_store.go lines 24-31).
RaceStoreEvent(p) ==
    /\ proc[p].pc \in {"cre_store", "del_store"}
    /\ proc[p].event.Sequence # 0
    /\ StoreMutexFree
    /\ LET c == Clone(mem, proc[p].event.Data.Product)
       IN  RaceStep(p, c.mem,
             [proc[p] EXCEPT
                !.pc = IF proc[p].pc = "cre_store" THEN "cre_snap" ELSE "del_snap",
                !.snap = c.addr])

\* The rest of that StoreEvent: lines 112-116 of Clone, then the append
\* (event_store.go lines 31-36).
RaceStoreAppend(p) ==
    /\ proc[p].pc \in {"cre_snap", "del_snap"}
    /\ mem' = CloneLastHash(mem, proc[p].snap, proc[p].event.Data.Product)
    /\ events' = Append(events, [proc[p].event EXCEPT !.Data.Product = proc[p].snap])
    /\ proc' = [proc EXCEPT
                  ![p].pc = IF proc[p].pc = "cre_snap" THEN "cre_commit"
                                                       ELSE "del_commit",
                  ![p].snap = 0]
    /\ UNCHANGED <<products, locks, sequence, uuids, now, last, calls,
                   published, held>>
    /\ UNCHANGED others

\* The goroutines are interchangeable and only one product is created, so
\* the goroutine that creates it is called 1.
NextRace ==
    \/ RaceCreate(1)
    \/ \E p \in Procs : RaceCreateID(p)
    \/ \E p \in Procs : RaceCreateVersion(p)
    \/ \E p \in Procs : RaceCreateFields(p)
    \/ \E p \in Procs : RaceCreateHash(p)
    \/ \E p \in Procs : RaceCreateLastHash(p)
    \/ \E p \in Procs : RaceCreateEvent(p)
    \/ \E p \in Procs : RaceCreateSequence(p)
    \/ \E p \in Procs : RaceCreateData(p)
    \/ \E p \in Procs : RaceStoreEvent(p)
    \/ \E p \in Procs : RaceStoreAppend(p)
    \/ \E p \in Procs : CreateCommit(p)
    \/ \E p \in Procs : CreatePublish(p, "")
    \/ \E p \in Procs, id \in 1..uuids, v \in 1..MaxVersion : RaceUpdate(p, id, v)
    \/ \E p \in Procs : RaceUpdateGet(p)
    \/ \E p \in Procs : RaceUpdateVersion(p)
    \/ \E p \in Procs : RaceUpdateCheck(p)
    \/ \E p \in Procs : RaceUpdateClone(p)
    \/ \E p \in Procs : RaceUpdateSequence(p)
    \/ \E p \in Procs : RaceUpdatePrev(p)
    \/ \E p \in Procs : RaceUpdateEvent(p)
    \/ \E p \in Procs : StoreMutexFree /\ UpdateStore(p)
    \/ \E p \in Procs : UpdateCommit(p)
    \/ \E p \in Procs, f \in {"Version", "LastHash"} : RaceUpdateCopyBack(p, f)
    \/ \E p \in Procs : RaceUpdateCopyRest(p)
    \/ \E p \in Procs : UpdatePublish(p, "")
    \/ \E p \in Procs : UpdateExit(p)
    \/ \E p \in Procs, id \in 1..uuids : DeleteCallUpTo(p, id, MaxRaceCalls)
    \/ \E p \in Procs : RaceDeleteEvent(p)
    \/ \E p \in Procs : RaceDeleteSequence(p)
    \/ \E p \in Procs : RaceDeleteData(p)
    \/ \E p \in Procs : RaceDeletePrev(p)
    \/ \E p \in Procs : DeleteCommit(p)
    \/ \E p \in Procs : DeletePublish(p, "")
    \/ \E a \in held.own \cup held.got : UpdateVersionLoad(a)
    \/ \E u \in BagToSet(held.uv) : UpdateVersionIncr(u)
    \/ \E u \in BagToSet(held.uv) : UpdateVersionFields(u)
    \/ \E u \in BagToSet(held.uv) : UpdateVersionHash(u)
    \/ \E u \in BagToSet(held.uv) : UpdateVersionStore(u)

SpecRace == Init /\ [][NextRace]_vars

\* C38: of two events stored for the same entity, the one with the higher
\* version has the higher sequence number.
C38_SequenceFollowsVersion ==
    \A i, j \in 1..Len(events) :
        (events[i].EntityID = events[j].EntityID
         /\ events[i].Version < events[j].Version)
        => events[i].Sequence < events[j].Sequence

(***************************************************************************)
(* The changes list of an update event (SpecSeq).                          *)
(***************************************************************************)
\* The event stored for the entity last before the event of sequence sq:
\* its snapshot is the aggregate as it was committed before that event.
StoredBefore(id, sq) ==
    {j \in 1..Len(events) :
        /\ events[j].EntityID = id
        /\ events[j].Sequence < sq
        /\ \A i \in 1..Len(events) :
              (events[i].EntityID = id /\ events[i].Sequence < sq)
              => events[i].Sequence <= events[j].Sequence}

\* The update event ev records the step from the snapshot stored before it
\* to its own: prev_hash, and a base_title entry exactly when the titles
\* differ.
RecordsTheChange(ev) ==
    \A j \in StoredBefore(ev.EntityID, ev.Sequence) :
        LET before == mem.structs[events[j].Data.Product]
            after  == mem.structs[ev.Data.Product]
            chg    == mem.chgs[ev.Data.Changes]
        IN  /\ ev.Data.PrevHash = before.LastHash
            /\ IF before.BaseTitle # after.BaseTitle
               THEN chg = << [Field |-> "base_title",
                              OldValue |-> before.BaseTitle,
                              NewValue |-> after.BaseTitle] >>
               ELSE \A i \in 1..Len(chg) : chg[i].Field # "base_title"

\* C34: a successful UpdateProduct has stored an event whose prev_hash is
\* the last_hash committed before the update and whose changes list has a
\* base_title entry, from the title committed before to the title committed
\* by the update, exactly when the two titles differ; also when the
\* candidate is the value handed to CreateProduct or returned by GetProduct.
C34_ChangesRecordTitle ==
    [][\A p \in Procs :
          (proc[p].pc = "upd_exit" /\ proc[p].err = "" /\ proc'[p].pc = "idle")
          => RecordsTheChange(proc[p].event)]_vars

(***************************************************************************)
(* Product.CalculateHash on its own: a caller builds products with their   *)
(* timestamps and stored hash, writes into them and hashes them.           *)
(***************************************************************************)
MaxHashProducts == 2
HashStamps   == {1, 2}                \* CreatedAt / UpdatedAt values
StoredHashes == {NoHash, <<"h">>}     \* LastHash values a caller may carry

\* A slice as a reader sees it: nil or not, and the elements.
SliceValue(M, r) ==
    IF r = 0 THEN [isNil |-> TRUE, elems |-> <<>>]
    ELSE [isNil |-> FALSE, elems |-> M.arrs[r]]

\* A []Variant as a reader sees it.
VariantsValue(M, r) ==
    IF r = 0 THEN [isNil |-> TRUE, elems |-> <<>>]
    ELSE [isNil |-> FALSE,
          elems |-> [i \in 1..Len(M.varrs[r]) |->
                       LET v == M.varrs[r][i]
                       IN  [ID |-> v.ID, SKU |-> v.SKU,
                            Attributes |-> IF v.Attributes = 0
                                           THEN [isNil |-> TRUE, color |-> 0]
                                           ELSE [isNil |-> FALSE,
                                                 color |-> M.maps[v.Attributes]],
                            Stock |-> SliceValue(M, v.Stock)]]]

\* The semantic fields of the Product at address a: everything but the
\* timestamps and LastHash.
Semantic(M, a) ==
    LET s == M.structs[a]
    IN  [ID |-> s.ID, SKU |-> s.SKU, BaseTitle |-> s.BaseTitle,
         Description |-> s.Description, Prices |-> SliceValue(M, s.Prices),
         Variants |-> VariantsValue(M, s.Variants),
         Metadata |-> SliceValue(M, s.Metadata), Version |-> s.Version]

\* A Product literal with id, version, stored hash and timestamps.
NewStamped(M, kind, title, ver, h, t) ==
    LET d == NewDraft(M, kind, title)
        s == d.mem.structs[d.addr]
    IN  [addr |-> d.addr,
         mem  |-> [d.mem EXCEPT !.structs[d.addr] =
                     [ID |-> 1, SKU |-> s.SKU, BaseTitle |-> s.BaseTitle,
                      Description |-> s.Description, Prices |-> s.Prices,
                      Variants |-> s.Variants, Metadata |-> s.Metadata,
                      CreatedAt |-> t, UpdatedAt |-> t,
                      Version |-> ver, LastHash |-> h]]]

\* The caller builds one more product.
HashNew(kind, title, ver, h, t) ==
    /\ calls < MaxHashProducts
    /\ calls' = calls + 1
    /\ LET d == NewStamped(mem, kind, title, ver, h, t)
       IN  /\ mem' = d.mem
           /\ held' = [held EXCEPT !.own = @ \cup {d.addr}]
    /\ UNCHANGED <<products, events, locks, sequence, uuids, now, proc, last,
                   published>>
    /\ UNCHANGED others

\* product.UpdatedAt = t
HashTouch(a, t) ==
    /\ a \in held.own
    /\ mem.structs[a].UpdatedAt # t
    /\ mem' = [mem EXCEPT !.structs[a].UpdatedAt = t]
    /\ UNCHANGED <<products, events, locks, sequence, uuids, now, proc, last,
                   calls, published, held>>
    /\ UNCHANGED others

\* h := product.CalculateHash(): the caller keeps the digest, together with
\* what the semantic fields were.
HashCall(a) ==
    /\ a \in held.own
    /\ last' = [last EXCEPT ![1] =
                  [op |-> "hash", a |-> a, hash |-> CalculateHash(mem, a),
                   sem |-> Semantic(mem, a)]]
    /\ last'[1] # last[1]
    /\ UNCHANGED <<mem, products, events, locks, sequence, uuids, now, proc,
                   calls, published, held>>
    /\ UNCHANGED others

\* product.Prices[0].Amount = math.Inf(1)
HashInf(a) ==
    /\ a \in held.own
    /\ MutatePrice(a, PosInf)
    /\ UNCHANGED <<products, events, locks, sequence, uuids, now, proc, last,
                   calls, published, held>>
    /\ UNCHANGED others

NextHash ==
    \/ \E k \in AllKinds, v \in 1..MaxVersion, h \in StoredHashes :
          HashNew(k, "t1", v, h, 1)
    \/ \E a \in held.own : HashInf(a)
    \/ \E a \in held.own, ts \in HashStamps : HashTouch(a, ts)
    \/ \E a \in held.own : HashCall(a)
    \/ \E a \in held.own : Mutate(a)

SpecHash == Init /\ [][NextHash]_vars

\* C31: CalculateHash is a function of the semantic fields only: two
\* products with equal id, sku, title, description, prices, variants,
\* metadata and version have the same hash whatever their timestamps and
\* LastHash are; a product hashed again gives the digest it gave before as
\* long as its semantic fields are what they were; and a product whose
\* semantic fields differ (from another's, or from what they were) has a
\* different hash.
C31_HashOfSemanticFields ==
    /\ \A a, b \in held.own :
          (Semantic(mem, a) = Semantic(mem, b))
          <=> (CalculateHash(mem, a) = CalculateHash(mem, b))
    /\ last[1].op = "hash"
       => ((Semantic(mem, last[1].a) = last[1].sem)
           <=> (CalculateHash(mem, last[1].a) = last[1].hash))

(***************************************************************************)
(* MemoryEventPublisher on its own: subscribers register and remove        *)
(* handler closures, events are published, the goroutines started by       *)
(* Publish run.  Every method holds p.mu from entry to return.             *)
(***************************************************************************)
\* The function literal a closure was made from: handlers 1 and 2 are two
\* closures of one literal (made in a loop), handler 3 is of another.
FuncLiteral(h) == IF h = 3 THEN 2 ELSE 1

\* reflect.ValueOf(g).Pointer() == reflect.ValueOf(h).Pointer(): for a func
\* the pointer is the code pointer of its function literal.
SamePointer(g, h) == FuncLiteral(g) = FuncLiteral(h)

\* Subscribe: p.handlers[eventType] = append(p.handlers[eventType], handler).
Subscribe(H, ty, h) ==
    [x \in DOMAIN H \cup {ty} |->
        IF x # ty THEN H[x]
        ELSE IF ty \in DOMAIN H THEN Append(H[ty], h) ELSE <<h>>]

\* The handlers of list w whose pointer differs from h's.
OtherHandlers(w, h) ==
    LET keep(g) == ~SamePointer(g, h)
    IN  SelectSeq(w, keep)

\* Unsubscribe: the list without the handlers whose pointer equals the
\* given one's; the key is deleted when nothing is left.
Unsubscribe(H, ty, h) ==
    IF ty \notin DOMAIN H THEN H
    ELSE IF Len(OtherHandlers(H[ty], h)) > 0
         THEN [H EXCEPT ![ty] = OtherHandlers(H[ty], h)]
         ELSE [x \in DOMAIN H \ {ty} |-> H[x]]

\* How many times handler h stands in the list of type ty.
Subscriptions(H, ty, h) ==
    IF ty \notin DOMAIN H THEN 0
    ELSE Cardinality({i \in 1..Len(H[ty]) : H[ty][i] = h})

\* Publish: one goroutine per entry of p.handlers[event.Type].
Publish(H, R, e, ty) ==
    [x \in DOMAIN R |->
        IF x[1] = e THEN R[x] + Subscriptions(H, ty, x[2]) ELSE R[x]]

SubscribeCall(ty, h) ==
    /\ pub.subs < MaxSubscribes
    /\ pub' = [pub EXCEPT !.handlers = Subscribe(pub.handlers, ty, h),
                          !.subs = @ + 1]
    /\ UNCHANGED <<mem, products, events, locks, sequence, uuids, now, proc,
                   last, calls, published, held, mu, batch, lim>>

UnsubscribeCall(ty, h) ==
    /\ pub' = [pub EXCEPT !.handlers = Unsubscribe(pub.handlers, ty, h)]
    /\ UNCHANGED <<mem, products, events, locks, sequence, uuids, now, proc,
                   last, calls, published, held, mu, batch, lim>>

\* The event published is number Len(pub.sent) + 1.
PublishCall(ty) ==
    /\ Len(pub.sent) < MaxPublished
    /\ pub' = [pub EXCEPT !.sent = Append(@, ty),
                          !.running = Publish(pub.handlers, @, Len(pub.sent) + 1, ty)]
    /\ UNCHANGED <<mem, products, events, locks, sequence, uuids, now, proc,
                   last, calls, published, held, mu, batch, lim>>

\* One goroutine started by Publish runs: handler h gets event e.
HandlerRun(e, h) ==
    /\ pub.running[e, h] > 0
    /\ pub' = [pub EXCEPT !.running[e, h] = @ - 1, !.received[e, h] = @ + 1]
    /\ UNCHANGED <<mem, products, events, locks, sequence, uuids, now, proc,
                   last, calls, published, held, mu, batch, lim>>

NextPub ==
    \/ \E ty \in PubTypes, h \in Handlers : SubscribeCall(ty, h)
    \/ \E ty \in PubTypes, h \in Handlers : UnsubscribeCall(ty, h)
    \/ \E ty \in PubTypes : PublishCall(ty)
    \/ \E e \in 1..MaxPublished, h \in Handlers : HandlerRun(e, h)

SpecPub == Init /\ [][NextPub]_vars

\* C32: Publish starts a delivery of the event to the handlers subscribed to
\* its type at the time of the call, one per subscription, and to no
\* handler of another type; Unsubscribe(type, h) leaves h with no
\* subscription to the type and leaves every other handler's subscriptions,
\* to this type and to the others, as they were, so that these handlers
\* still receive the later events.
C32_PublishToSubscribers ==
    [][/\ \A ty \in PubTypes :
             PublishCall(ty) =>
                 \A e \in 1..MaxPublished, h \in Handlers :
                     pub'.running[e, h] =
                         IF e = Len(pub.sent) + 1
                         THEN Subscriptions(pub.handlers, ty, h)
                         ELSE pub.running[e, h]
       /\ \A ty \in PubTypes, h \in Handlers :
             UnsubscribeCall(ty, h) =>
                 \A x \in PubTypes, g \in Handlers :
                     Subscriptions(pub'.handlers, x, g) =
                         IF x = ty /\ g = h THEN 0
                         ELSE Subscriptions(pub.handlers, x, g)]_vars

(***************************************************************************)
(* The rate limiters on their own: callers ask Allow and Reset for a few   *)
(* keys while time passes.  Every method holds l.mu from entry to return;  *)
(* lim.answers is the list of the calls made and what they returned.       *)
(***************************************************************************)
LimitKeys      == {1, 2}
MaxLimitCalls  == 5      \* Allow and Reset calls
WindowLimit    == 2      \* limit of the SlidingWindowLimiter
WindowDuration == 2      \* its duration, in ticks
BucketCapacity == 2      \* capacity of the TokenBucketLimiter
BucketRate     == 1      \* its rate, in tokens per tick

Answer(op, k, t, ok) == [op |-> op, key |-> k, at |-> t, ok |-> ok]

\* delete(m, key)
MapDelete(m, k) == [x \in DOMAIN m \ {k} |-> m[x]]

\* m[key] = v
MapPut(m, k, v) == [x \in DOMAIN m \cup {k} |-> IF x = k THEN v ELSE m[x]]

\* A filter that keeps every timestamp.
WholeWindow(w, cutoff) == w

\* Lines 103-108: the timestamps t of the window with t.After(cutoff).
ValidWindow(w, cutoff) ==
    LET after(t) == t > cutoff
    IN  SelectSeq(w, after)

\* SlidingWindowLimiter.Allow at time t: the answer and the windows map.
SlidingAllow(W, k, t) ==
    LET window == IF k \in DOMAIN W THEN W[k] ELSE <<>>
        valid  == ValidWindow(window, t - WindowDuration)
    IN  IF Len(valid) >= WindowLimit
        THEN [ok |-> FALSE, windows |-> MapPut(W, k, valid)]
        ELSE [ok |-> TRUE,  windows |-> MapPut(W, k, Append(valid, t))]

WindowAllow(k) ==
    /\ Len(lim.answers) < MaxLimitCalls
    /\ LET r == SlidingAllow(lim.windows, k, now)
       IN  lim' = [lim EXCEPT !.windows = r.windows,
                              !.answers = Append(@, Answer("allow", k, now, r.ok))]
    /\ UNCHANGED <<mem, products, events, locks, sequence, uuids, now, proc,
                   last, calls, published, held, mu, batch, pub>>

\* SlidingWindowLimiter.Reset: delete(l.windows, key).
WindowReset(k) ==
    /\ Len(lim.answers) < MaxLimitCalls
    /\ lim' = [lim EXCEPT !.windows = MapDelete(@, k),
                          !.answers = Append(@, Answer("reset", k, now, TRUE))]
    /\ UNCHANGED <<mem, products, events, locks, sequence, uuids, now, proc,
                   last, calls, published, held, mu, batch, pub>>

NextWindow ==
    \/ \E k \in LimitKeys : WindowAllow(k)
    \/ \E k \in LimitKeys : WindowReset(k)
    \/ Tick

SpecWindow == Init /\ [][NextWindow]_vars

\* The calls of list A for key k that returned true at a time in lo..hi-1
\* and after which the key was not Reset.
Granted(A, k, lo, hi) ==
    {i \in 1..Len(A) :
        /\ A[i].op = "allow" /\ A[i].key = k /\ A[i].ok
        /\ lo <= A[i].at /\ A[i].at < hi
        /\ \A j \in (i + 1)..Len(A) : ~(A[j].op = "reset" /\ A[j].key = k)}

\* C33: for every key at most WindowLimit calls of Allow return true within
\* any interval of WindowDuration ticks (from t up to, not including,
\* t + WindowDuration; counted since the key's last Reset); and Allow(key)
\* returns true exactly when fewer than WindowLimit calls for this key since
\* its last Reset returned true less than WindowDuration ago: a denied call
\* is not counted, requests as old as the duration no longer count, the
\* first Allow after Reset returns true, and the calls for other keys play
\* no part.
C33_SlidingWindow ==
    [][/\ \A k \in LimitKeys, t \in 0..MaxTime :
             Cardinality(Granted(lim'.answers, k, t, t + WindowDuration))
                 <= WindowLimit
       /\ \A k \in LimitKeys :
             WindowAllow(k) =>
                 (lim'.answers[Len(lim'.answers)].ok
                  <=> Cardinality(Granted(lim.answers, k,
                                          now - WindowDuration + 1, now + 1))
                          < WindowLimit)]_vars

\* A key was granted a call and denied a later one at the same time, and
\* was granted again WindowDuration ticks later.
C33_Witness ==
    \E k \in LimitKeys, i, j, m \in 1..Len(lim.answers) :
        /\ i < j /\ j < m
        /\ lim.answers[i].key = k /\ lim.answers[j].key = k /\ lim.answers[m].key = k
        /\ lim.answers[i].op = "allow" /\ lim.answers[i].ok
        /\ lim.answers[j].op = "allow" /\ ~lim.answers[j].ok
        /\ lim.answers[j].at = lim.answers[i].at
        /\ lim.answers[m].op = "allow" /\ lim.answers[m].ok
        /\ lim.answers[m].at = lim.answers[i].at + WindowDuration

\* TokenBucketLimiter.Allow at time t: the answer and the two maps.
\* elapsed / refillPeriod * rate, with the refill period as the tick.
BucketAllowAt(T, R, k, t) ==
    IF k \notin DOMAIN T
    THEN [ok |-> TRUE, tokens |-> MapPut(T, k, BucketCapacity),
          lastRefill |-> MapPut(R, k, t)]
    ELSE LET tokensToAdd == (t - R[k]) * BucketRate
             sum         == T[k] + tokensToAdd
             currentTokens == IF sum > BucketCapacity THEN BucketCapacity ELSE sum
         IN  IF currentTokens < 1
             THEN [ok |-> FALSE, tokens |-> T, lastRefill |-> R]
             ELSE [ok |-> TRUE, tokens |-> MapPut(T, k, currentTokens - 1),
                   lastRefill |-> MapPut(R, k, t)]

BucketAllow(k) ==
    /\ Len(lim.answers) < MaxLimitCalls
    /\ LET r == BucketAllowAt(lim.tokens, lim.lastRefill, k, now)
       IN  lim' = [lim EXCEPT !.tokens = r.tokens,
                              !.lastRefill = r.lastRefill,
                              !.answers = Append(@, Answer("allow", k, now, r.ok))]
    /\ UNCHANGED <<mem, products, events, locks, sequence, uuids, now, proc,
                   last, calls, published, held, mu, batch, pub>>

\* TokenBucketLimiter.Reset: both entries of the key are deleted.
BucketReset(k) ==
    /\ Len(lim.answers) < MaxLimitCalls
    /\ lim' = [lim EXCEPT !.tokens = MapDelete(@, k),
                          !.lastRefill = MapDelete(@, k),
                          !.answers = Append(@, Answer("reset", k, now, TRUE))]
    /\ UNCHANGED <<mem, products, events, locks, sequence, uuids, now, proc,
                   last, calls, published, held, mu, batch, pub>>

NextBucket ==
    \/ \E k \in LimitKeys : BucketAllow(k)
    \/ \E k \in LimitKeys : BucketReset(k)
    \/ Tick

SpecBucket == Init /\ [][NextBucket]_vars

\* Call i of list A is the first Allow for its key: no call for the key came
\* before it, or the last one that did was a Reset.
FirstAllow(A, i) ==
    /\ A[i].op = "allow"
    /\ \A j \in 1..(i - 1) :
          A[j].key = A[i].key =>
              \E r \in (j + 1)..(i - 1) : A[r].key = A[i].key /\ A[r].op = "reset"

\* The calls from i on, for the key of call i, made at the time of call i
\* with no Reset since, that returned true.
Burst(A, i) ==
    {j \in i..Len(A) :
        /\ A[j].key = A[i].key /\ A[j].op = "allow" /\ A[j].ok
        /\ A[j].at = A[i].at
        /\ \A r \in i..j : A[r].key = A[i].key => A[r].op = "allow"}

\* The stored token count of every key is within 0..BucketCapacity.
TokensInRange ==
    \A k \in DOMAIN lim.tokens :
        0 <= lim.tokens[k] /\ lim.tokens[k] <= BucketCapacity

\* C39: for a key not seen before or just Reset, with no time passing
\* between the calls, at most BucketCapacity calls of Allow return true;
\* and the stored token count of a key is always within 0..BucketCapacity.
C39_TokenBucket ==
    /\ TokensInRange
    /\ \A i \in 1..Len(lim.answers) :
          FirstAllow(lim.answers, i)
          => Cardinality(Burst(lim.answers, i)) <= BucketCapacity

====
